---- MODULE Spec2Model ----
(***************************************************************************)
(* A model of the tool orchestration core of opencode_nano:                *)
(*   - tools/core/registry.go   ToolRegistry                               *)
(*   - tools/core/base.go       MapParameters.Validate                     *)
(*   - permission               InteractiveManager.Request                 *)
(*   - tools adapters and core pipelines (permission gating)               *)
(*   - agent provider           streamed tool-call accumulation            *)
(*   - agent/agent.go           RunOnce / RunInteractive round loop        *)
(* Go strings are sequences of one-character strings, so that             *)
(* strings.ToLower, strings.Contains and strings.TrimSpace are computed.   *)
(***************************************************************************)
EXTENDS Integers, Sequences, FiniteSets, TLC

VARIABLES
    tools,       \* ToolRegistry.tools      : name  -> Tool
    aliases,     \* ToolRegistry.aliases    : alias -> name
    categories,  \* ToolRegistry.categories : category -> sequence of Tool
    tagIndex,    \* ToolRegistry.tagIndex   : tag -> sequence of Tool
    ret,         \* the last registry call: its arguments and what it returned
    schema,      \* the ParameterSchema handed to Validate
    params,      \* MapParameters.data : key -> value
    verr,        \* what the last Validate returned ("none" before the first)
    stdin,       \* what the operator has typed and Request has not read
    closed,      \* the operator's input has ended (end of file)
    answer,      \* what Request returned ("pending" while it blocks)
    call,        \* the last tool dispatch: its path, its events in order, its result
    steps,       \* ToolPipeline.steps: the tools added to the pipeline so far
    variant,     \* which streaming function of Provider is running
    frames,      \* the responses stream.Recv has returned so far
    currentToolCall,  \* the call being assembled, or NilCall
    toolCalls,   \* StreamResponseWithHistory: the calls collected so far
    executed,    \* the calls handed to executeToolCall, in order
    streamState, \* "streaming", or how the function returned: "done", "error"
    mode,        \* which loop of Agent is running: "RunOnce" or "RunInteractive"
    round,       \* the loop variable round
    loopPc,      \* where the loop stands: "top", "tools" or "returned"
    pendingCalls,  \* how many of this round's toolCalls are still to execute
    messages,    \* the messages of the conversation, in order, each by its kind
    roundsStarted, \* how many times the loop body was entered
    runErr,      \* what the function returned: "nil" or "error"
    roundCalls,  \* per round started: what its stream produced
    lastResult,  \* the last tool call: its error and the content of its result message
    par,         \* ParallelPipeline.Execute: its locals results, errors and the WaitGroup
    cond,        \* ConditionalPipeline: its steps and its defaultStep
    lastExec,    \* the last executeToolCall: the call, what was invoked, what it returned
    mu,          \* ToolRegistry.mu and the calls in progress on the registry
    sink,        \* the text of the responses received and what onDelta was given
    ctx,      \* the context handed to the loop: "background", "live" or "cancelled"
    disk,     \* the todo file, its temp file, the FileStorage mutexes and the Saves
    cli,      \* main: its arguments, the permission manager it makes and the prompt
    once      \* a.conversation and the run-local messages of RunOnce, as slices

regVars == <<tools, aliases, categories, tagIndex, ret>>

valVars == <<schema, params, verr>>

gateVars == <<stdin, closed, answer>>

dispVars == <<call, steps>>

accVars == <<variant, frames, currentToolCall, toolCalls, executed, streamState>>

loopVars == <<mode, round, loopPc, pendingCalls, messages, roundsStarted, runErr,
              roundCalls, lastResult>>

vars == <<tools, aliases, categories, tagIndex, ret, schema, params, verr,
          stdin, closed, answer, call, steps,
          variant, frames, currentToolCall, toolCalls, executed, streamState,
          mode, round, loopPc, pendingCalls, messages, roundsStarted, runErr,
          roundCalls, lastResult, par, cond, lastExec, mu, sink, ctx, disk, cli, once>>

pipeVars == <<par, cond>>

execVars == <<lastExec>>

lockVars == <<mu>>

textVars == <<sink>>

restVars == <<ctx, disk, cli, once>>

\* what the operations of one component leave alone
notRegVars == <<restVars, lockVars, textVars, pipeVars, execVars, valVars, gateVars, dispVars, accVars, loopVars>>

notValVars == <<restVars, lockVars, textVars, pipeVars, execVars, regVars, gateVars, dispVars, accVars, loopVars>>

notGateVars == <<restVars, lockVars, textVars, pipeVars, execVars, regVars, valVars, dispVars, accVars, loopVars>>

notDispVars == <<restVars, lockVars, textVars, pipeVars, execVars, regVars, valVars, gateVars, accVars, loopVars>>

notAccVars == <<restVars, lockVars, textVars, pipeVars, execVars, regVars, valVars, gateVars, dispVars, loopVars>>
notStreamVars == <<restVars, lockVars, pipeVars, execVars, regVars, valVars, gateVars, dispVars, loopVars>>

notLoopVars == <<restVars, lockVars, textVars, pipeVars, execVars, regVars, valVars, gateVars, dispVars, accVars>>
notLoopLogVars ==
    <<restVars, lockVars, textVars, pipeVars, execVars, regVars, valVars, gateVars, dispVars,
      variant, frames, currentToolCall, toolCalls, streamState>>

notPipeVars == <<restVars, lockVars, textVars, execVars, regVars, valVars, gateVars, accVars, loopVars>>

notExecVars == <<restVars, lockVars, textVars, pipeVars, regVars, valVars, gateVars, dispVars, accVars, loopVars>>

----------------------------------------------------------------------------
(* Strings *)

bash == <<"b", "a", "s", "h">>
sh == <<"s", "h">>
SH == <<"S", "H">>
ls == <<"l", "s">>
bas == <<"b", "a", "s">>
shell == <<"s", "h", "e", "l", "l">>
Shell == <<"S", "h", "e", "l", "l">>
run == <<"R", "u", "n">>
list == <<"l", "i", "s", "t">>
empty == <<>>

\* strings.ToLower on one character
LowerChar(c) ==
    CASE c = "S" -> "s"
      [] c = "H" -> "h"
      [] c = "R" -> "r"
      [] c = "B" -> "b"
      [] c = "Y" -> "y"
      [] c = "E" -> "e"
      [] c = "N" -> "n"
      [] OTHER -> c

ToLower(s) == [i \in 1..Len(s) |-> LowerChar(s[i])]

\* strings.Contains(s, sub)
Contains(s, sub) ==
    \E i \in 0..(Len(s) - Len(sub)) :
        \A j \in 1..Len(sub) : s[i + j] = sub[j]

----------------------------------------------------------------------------
(* Maps: a Go map is a function whose domain is the set of its keys *)

EmptyMap == <<>>

HasKey(m, k) == k \in DOMAIN m

MapPut(m, k, v) == [x \in (DOMAIN m) \cup {k} |-> IF x = k THEN v ELSE m[x]]

MapDelete(m, k) == [x \in (DOMAIN m) \ {k} |-> m[x]]

\* the elements of a finite set in some order (Go's map iteration order is
\* unspecified; callers below do not depend on it)
RECURSIVE SetToSeq(_)
SetToSeq(S) ==
    IF S = {} THEN <<>>
    ELSE LET x == CHOOSE y \in S : TRUE IN <<x>> \o SetToSeq(S \ {x})

Range(s) == {s[i] : i \in DOMAIN s}

----------------------------------------------------------------------------
(* Tool Registry: tools/core/registry.go *)

\* at most this many aliases are passed to one Register call
MaxAliases == 2

\* the tools offered to Register: ToolInfo{Name, Category, Description, Tags}
\* of distinct Tool objects (id); two objects may carry the same name
ToolPool ==
    { [id |-> 1, name |-> bash, category |-> "system", description |-> run,
       tags |-> <<Shell>>],
      [id |-> 2, name |-> sh, category |-> "", description |-> list,
       tags |-> <<ls, Shell>>],
      [id |-> 3, name |-> bash, category |-> "file", description |-> shell,
       tags |-> <<ls>>] }

\* the aliases offered to Register
AliasPool == {sh, bash}

\* the names asked of Get and Unregister
NamePool == {bash, sh, ls}

\* the queries asked of Find
QueryPool == {bas, SH, ls}

AliasLists == UNION {[1..n -> AliasPool] : n \in 0..MaxAliases}

NoErr == "nil"
ErrRegistered == "already registered"
ErrAliasInUse == "alias already in use"
ErrNotFound == "TOOL_NOT_FOUND"

NoTool == [id |-> 0]

\* the alias loop of Register: stops at the first alias already in use and
\* keeps the aliases added before it
RECURSIVE RegisterAliases(_, _, _)
RegisterAliases(al, als, name) ==
    IF als = <<>> THEN [aliases |-> al, err |-> NoErr]
    ELSE IF HasKey(al, Head(als)) THEN [aliases |-> al, err |-> ErrAliasInUse]
    ELSE RegisterAliases(MapPut(al, Head(als), name), Tail(als), name)

\* the tag loop of Register
RECURSIVE RegisterTags(_, _, _)
RegisterTags(ti, tags, tool) ==
    IF tags = <<>> THEN ti
    ELSE LET tag == Head(tags)
             old == IF HasKey(ti, tag) THEN ti[tag] ELSE <<>>
         IN RegisterTags(MapPut(ti, tag, Append(old, tool)), Tail(tags), tool)

RegisterCategory(cs, tool) ==
    IF tool.category # ""
    THEN MapPut(cs, tool.category,
                Append(IF HasKey(cs, tool.category) THEN cs[tool.category] ELSE <<>>,
                       tool))
    ELSE cs

\* Register(tool, aliases...): the registry and the error it returns
RegisterResult(tool, als) ==
    IF HasKey(tools, tool.name)
    THEN [tools |-> tools, aliases |-> aliases, categories |-> categories,
          tagIndex |-> tagIndex, err |-> ErrRegistered]
    ELSE LET tools1 == MapPut(tools, tool.name, tool)
             ra == RegisterAliases(aliases, als, tool.name)
         IN IF ra.err # NoErr
            THEN [tools |-> tools1, aliases |-> ra.aliases,
                  categories |-> categories, tagIndex |-> tagIndex,
                  err |-> ra.err]
            ELSE [tools |-> tools1, aliases |-> ra.aliases,
                  categories |-> RegisterCategory(categories, tool),
                  tagIndex |-> RegisterTags(tagIndex, tool.tags, tool),
                  err |-> NoErr]

Register(tool, als) ==
    LET r == RegisterResult(tool, als) IN
    /\ tools' = r.tools
    /\ aliases' = r.aliases
    /\ categories' = r.categories
    /\ tagIndex' = r.tagIndex
    /\ ret' = [op |-> "Register", tool |-> tool, aliases |-> als, name |-> tool.name,
               err |-> r.err, out |-> <<>>]
    /\ UNCHANGED notRegVars

\* Get with the two lookups swapped: the alias map is consulted first
GetResultAliasFirst(name) ==
    IF HasKey(aliases, name) /\ HasKey(tools, aliases[name])
    THEN [tool |-> tools[aliases[name]], err |-> NoErr]
    ELSE IF HasKey(tools, name) THEN [tool |-> tools[name], err |-> NoErr]
    ELSE [tool |-> NoTool, err |-> ErrNotFound]

\* Get(name): literal name first, then alias
GetResult(name) ==
    IF HasKey(tools, name) THEN [tool |-> tools[name], err |-> NoErr]
    ELSE IF HasKey(aliases, name) /\ HasKey(tools, aliases[name])
    THEN [tool |-> tools[aliases[name]], err |-> NoErr]
    ELSE [tool |-> NoTool, err |-> ErrNotFound]

Get(name) ==
    LET r == GetResult(name) IN
    /\ ret' = [op |-> "Get", tool |-> r.tool, aliases |-> <<>>, name |-> name,
               err |-> r.err, out |-> <<>>]
    /\ UNCHANGED <<tools, aliases, categories, tagIndex>>
    /\ UNCHANGED notRegVars

\* Has(name)
HasTool(name) ==
    IF HasKey(tools, name) THEN TRUE
    ELSE IF HasKey(aliases, name) THEN HasKey(tools, aliases[name])
    ELSE FALSE

\* Find(query), first loop: tool names
RECURSIVE FindByName(_, _, _)
FindByName(names, query, acc) ==
    IF names = <<>> THEN acc
    ELSE LET name == Head(names)
             hit == Contains(ToLower(name), query) /\ name \notin acc.seen
         IN FindByName(Tail(names), query,
                IF hit THEN [results |-> Append(acc.results, tools[name]),
                             seen |-> acc.seen \cup {name}]
                ELSE acc)

\* Find(query), second loop: aliases
RECURSIVE FindByAlias(_, _, _)
FindByAlias(als, query, acc) ==
    IF als = <<>> THEN acc
    ELSE LET alias == Head(als)
             realName == aliases[alias]
             hit == /\ Contains(ToLower(alias), query)
                    /\ HasKey(tools, realName)
                    /\ realName \notin acc.seen
         IN FindByAlias(Tail(als), query,
                IF hit THEN [results |-> Append(acc.results, tools[realName]),
                             seen |-> acc.seen \cup {realName}]
                ELSE acc)

\* Find(query), third loop: descriptions
RECURSIVE FindByDescription(_, _, _)
FindByDescription(names, query, acc) ==
    IF names = <<>> THEN acc
    ELSE LET name == Head(names)
             hit == /\ Contains(ToLower(tools[name].description), query)
                    /\ name \notin acc.seen
         IN FindByDescription(Tail(names), query,
                IF hit THEN [results |-> Append(acc.results, tools[name]),
                             seen |-> acc.seen \cup {name}]
                ELSE acc)

\* Find(query), fourth loop, inner: the tools indexed under one matching tag
RECURSIVE FindTagged(_, _)
FindTagged(ts, acc) ==
    IF ts = <<>> THEN acc
    ELSE LET tool == Head(ts) IN
         FindTagged(Tail(ts),
                IF tool.name \notin acc.seen
                THEN [results |-> Append(acc.results, tool),
                      seen |-> acc.seen \cup {tool.name}]
                ELSE acc)

\* Find(query), fourth loop: tags
RECURSIVE FindByTag(_, _, _)
FindByTag(tags, query, acc) ==
    IF tags = <<>> THEN acc
    ELSE LET tag == Head(tags) IN
         FindByTag(Tail(tags), query,
                IF Contains(ToLower(tag), query)
                THEN FindTagged(tagIndex[tag], acc)
                ELSE acc)

\* Find(query): the result slice
FindResult(q) ==
    LET query == ToLower(q)
        a0 == [results |-> <<>>, seen |-> {}]
        a1 == FindByName(SetToSeq(DOMAIN tools), query, a0)
        a2 == FindByAlias(SetToSeq(DOMAIN aliases), query, a1)
        a3 == FindByDescription(SetToSeq(DOMAIN tools), query, a2)
        a4 == FindByTag(SetToSeq(DOMAIN tagIndex), query, a3)
    IN a4.results

Find(q) ==
    /\ ret' = [op |-> "Find", tool |-> NoTool, aliases |-> <<>>, name |-> q,
               err |-> NoErr, out |-> FindResult(q)]
    /\ UNCHANGED <<tools, aliases, categories, tagIndex>>
    /\ UNCHANGED notRegVars

\* Unregister, the category and tag loops: drop the tool from one bucket and
\* delete the bucket when it becomes empty
DropFromBucket(index, key, name) ==
    LET old == IF HasKey(index, key) THEN index[key] ELSE <<>>
        newTools == SelectSeq(old, LAMBDA t : t.name # name)
    IN IF newTools = <<>> THEN MapDelete(index, key)
       ELSE MapPut(index, key, newTools)

RECURSIVE UnregisterTags(_, _, _)
UnregisterTags(ti, tags, name) ==
    IF tags = <<>> THEN ti
    ELSE UnregisterTags(DropFromBucket(ti, Head(tags), name), Tail(tags), name)

\* an Unregister that leaves the alias map as it is
UnregisterAliasesKeeping(al, name) == al

\* the alias loop of Unregister: every alias of the tool is deleted
UnregisterAliases(al, name) ==
    [a \in {x \in DOMAIN al : al[x] # name} |-> al[a]]

\* Unregister(name)
UnregisterResult(name) ==
    IF ~HasKey(tools, name)
    THEN [tools |-> tools, aliases |-> aliases, categories |-> categories,
          tagIndex |-> tagIndex, err |-> ErrNotFound]
    ELSE LET tool == tools[name] IN
         [tools |-> MapDelete(tools, name),
          aliases |-> UnregisterAliases(aliases, name),
          categories |-> IF tool.category # ""
                         THEN DropFromBucket(categories, tool.category, name)
                         ELSE categories,
          tagIndex |-> UnregisterTags(tagIndex, tool.tags, name),
          err |-> NoErr]

Unregister(name) ==
    LET r == UnregisterResult(name) IN
    /\ tools' = r.tools
    /\ aliases' = r.aliases
    /\ categories' = r.categories
    /\ tagIndex' = r.tagIndex
    /\ ret' = [op |-> "Unregister", tool |-> NoTool, aliases |-> <<>>, name |-> name,
               err |-> r.err, out |-> <<>>]
    /\ UNCHANGED notRegVars

NoCall == [op |-> "NewRegistry", tool |-> NoTool, aliases |-> <<>>, name |-> empty,
           err |-> NoErr, out |-> <<>>]

NoSchema == [required |-> <<>>, properties |-> EmptyMap]

NotValidated == [kind |-> "none"]

NoDispatch ==
    [path |-> "none", events |-> <<>>, err |-> "nil", results |-> <<>>,
     attempts |-> <<>>, errStep |-> 0, errTool |-> "none", stopOnError |-> TRUE]

\* ParallelPipeline.Execute is not running
NoParallel ==
    [state |-> "idle", steps |-> <<>>, results |-> <<>>, errors |-> <<>>,
     done |-> {}, cancelled |-> FALSE, outcome |-> <<>>, finished |-> <<>>]

\* NewConditionalPipeline: no steps, defaultStep nil
NoConditional ==
    [steps |-> <<>>, defaultStep |-> [nil |-> TRUE], prevResults |-> <<>>]

\* executeToolCall has not been called yet
NoExec == [called |-> FALSE]

\* no call holds ToolRegistry.mu
Unlocked == [writer |-> [pc |-> "idle"], readers |-> {}]

\* a file that does not exist, and a file that holds data
NoFile == [exists |-> FALSE, data |-> <<>>]

File(data) == [exists |-> TRUE, data |-> data]

\* this many FileStorage values are made for the one path (every todo tool
\* makes its own), and this many goroutines or processes call them
MaxStores == 2

MaxSavers == 2

\* session.NewDefaultFileStorage, once per tool: no file yet at the path or
\* the temp path, every mutex free, nobody inside Save
NewDefaultFileStorage ==
    [mu |-> [st \in 1..MaxStores |-> 0],
     files |-> [path |-> NoFile, tmp |-> NoFile],
     pc |-> [g \in 1..MaxSavers |-> "idle"],
     on |-> [g \in 1..MaxSavers |-> 0],
     items |-> [g \in 1..MaxSavers |-> 0],
     fd |-> [g \in 1..MaxSavers |-> "closed"],
     off |-> [g \in 1..MaxSavers |-> 0],
     loaded |-> NoFile]

\* main has not started
NoMain ==
    [pc |-> "none", osArgs |-> <<>>, args |-> <<>>, autoMode |-> FALSE,
     perm |-> "none", prompt |-> <<>>, granted |-> {}]

\* the agent after New, as Go holds it: a.conversation is the first len cells
\* of its backing array; no RunOnce is running
NewAgentMemory ==
    [pc |-> "idle", array |-> <<"system">>, len |-> 1,
     shared |-> FALSE, local |-> <<>>, llen |-> 0,
     round |-> 0, pending |-> 0, err |-> "nil",
     before |-> [len |-> 0, conversation |-> <<>>]]

\* no response received yet
NoText == [content |-> <<>>, delivered |-> <<>>]

\* no tool call has been executed yet
NoResult == [err |-> "none", content |-> "none"]

\* var currentToolCall *openai.ToolCall starts as nil
NilCall == [nil |-> TRUE]

\* NewRegistry()
InitRegistry ==
    /\ tools = EmptyMap
    /\ aliases = EmptyMap
    /\ categories = EmptyMap
    /\ tagIndex = EmptyMap
    /\ ret = NoCall
    /\ schema = NoSchema
    /\ params = EmptyMap
    /\ verr = NotValidated
    /\ stdin = <<>>
    /\ closed = FALSE
    /\ answer = "pending"
    /\ call = NoDispatch
    /\ steps = <<>>
    /\ par = NoParallel
    /\ cond = NoConditional
    /\ mu = Unlocked
    /\ sink = NoText
    /\ once = NewAgentMemory
    /\ cli = NoMain
    /\ disk = NewDefaultFileStorage
    /\ ctx = "background"
    /\ lastExec = NoExec
    /\ variant = "none"
    /\ frames = <<>>
    /\ currentToolCall = NilCall
    /\ toolCalls = <<>>
    /\ executed = <<>>
    /\ streamState = "idle"
    /\ mode = "none"
    /\ round = 0
    /\ loopPc = "idle"
    /\ pendingCalls = 0
    /\ messages = <<>>
    /\ roundsStarted = 0
    /\ runErr = "nil"
    /\ roundCalls = <<>>
    /\ lastResult = NoResult

NextRegistry ==
    \/ \E tool \in ToolPool, als \in AliasLists : Register(tool, als)
    \/ \E name \in NamePool : Unregister(name)
    \/ \E name \in NamePool : Get(name)
    \/ \E q \in QueryPool : Find(q)


----------------------------------------------------------------------------
(* Registry claims *)

\* a name or alias is in use when it is a key of the name map or of the alias map
InUse(n) == HasKey(tools, n) \/ HasKey(aliases, n)

\* GetAliases(toolName)
AliasesOf(toolName) == {a \in DOMAIN aliases : aliases[a] = toolName}

\* C1: every Register call whose tool name, or one of whose aliases, is
\* already in use as a name or as an alias returns a collision error.
C1_RegisterRejectsEveryCollision ==
    [][ ( /\ ret'.op = "Register"
          /\ \/ InUse(ret'.name)
             \/ \E i \in DOMAIN ret'.aliases : InUse(ret'.aliases[i]) )
        => ret'.err # NoErr ]_vars

\* C2: a Register call that returns an error leaves the name map, the alias
\* map, the category index and the tag index as they were.
C2_FailedRegisterChangesNothing ==
    [][ (ret'.op = "Register" /\ ret'.err # NoErr)
        => UNCHANGED <<tools, aliases, categories, tagIndex>> ]_vars

\* C3: Get(name) returns the tool registered under the literal name when
\* there is one (also when an alias has the same spelling), otherwise the
\* tool the alias maps to, otherwise ToolNotFound.
C3_GetLiteralThenAlias ==
    ret.op = "Get" =>
        \/ /\ HasKey(tools, ret.name)
           /\ ret.err = NoErr
           /\ ret.tool = tools[ret.name]
        \/ /\ ~HasKey(tools, ret.name)
           /\ HasKey(aliases, ret.name)
           /\ ret.err = NoErr
           /\ ret.tool = tools[aliases[ret.name]]
        \/ /\ ~HasKey(tools, ret.name)
           /\ ~HasKey(aliases, ret.name)
           /\ ret.err = ErrNotFound
           /\ ret.tool = NoTool

\* a Get of a name that is also an alias of another tool returned the tool
\* registered under the name
C3_Witness ==
    /\ ret.op = "Get"
    /\ HasKey(tools, ret.name)
    /\ HasKey(aliases, ret.name)
    /\ aliases[ret.name] # ret.name
    /\ HasKey(tools, aliases[ret.name])
    /\ ret.tool = tools[ret.name]
    /\ ret.tool # tools[aliases[ret.name]]

\* the tools Find(q) is to return: those whose lower-cased name, alias,
\* description or tag contains the lower-cased query
Matches(t, q) ==
    LET query == ToLower(q) IN
    \/ Contains(ToLower(t.name), query)
    \/ \E a \in AliasesOf(t.name) : Contains(ToLower(a), query)
    \/ Contains(ToLower(t.description), query)
    \/ \E i \in DOMAIN t.tags : Contains(ToLower(t.tags[i]), query)

\* C4: Find(query) returns exactly the registered tools that match the
\* query in name, alias, description or tag, each exactly once.
C4_FindReturnsExactlyTheMatches ==
    ret.op = "Find" =>
        /\ Range(ret.out) = {t \in Range(tools) : Matches(t, ret.name)}
        /\ Len(ret.out) = Cardinality(Range(ret.out))

\* C20: after any sequence of Register and Unregister calls, successful or
\* failed, every alias known to the registry maps to exactly one tool and
\* that tool is currently registered: no alias is left dangling, and Get on
\* an alias that GetAlias reports never fails.
C20_AliasesMapToLiveTools ==
    \A alias \in DOMAIN aliases :
        /\ HasKey(tools, aliases[alias])
        /\ Cardinality({n \in DOMAIN tools : n = aliases[alias]}) = 1
        /\ GetResult(alias).err = NoErr
        /\ HasTool(alias)

\* a Register that failed on its second alias kept its first alias, which
\* maps to the tool the same call registered, the only tool of the registry
C20_Witness ==
    /\ ret.op = "Register"
    /\ ret.err = ErrAliasInUse
    /\ Len(ret.aliases) = 2
    /\ HasKey(aliases, ret.aliases[1])
    /\ aliases[ret.aliases[1]] = ret.name
    /\ HasKey(tools, ret.name)
    /\ Cardinality(DOMAIN tools) = 1

\* GetByCategory(category): a copy of the bucket, empty for an absent key
GetByCategory(category) ==
    IF HasKey(categories, category) THEN categories[category] ELSE <<>>

\* GetByTags(tags...): the tools of the first tag's bucket, by name, that
\* are also in the bucket of every later tag; the order of the result is
\* Go's map order, so the result is kept as a set
GetByTags(tags) ==
    IF tags = <<>> THEN {}
    ELSE LET bucket(i) == IF HasKey(tagIndex, tags[i])
                          THEN Range(tagIndex[tags[i]]) ELSE {}
         IN {t \in bucket(Len(tags)) :
                \A i \in 1..(Len(tags) - 1) :
                    \E u \in bucket(i) : u.name = t.name}

\* All(): the tools of the name map
All == Range(tools)

\* Get(name) returns this tool
Retrievable(t) ==
    GetResult(t.name).err = NoErr /\ GetResult(t.name).tool = t

\* the tool is listed under its category, when it has one, and under each
\* of its tags
Indexed(t) ==
    /\ t.category # "" => t \in Range(GetByCategory(t.category))
    /\ \A i \in DOMAIN t.tags : t \in GetByTags(<<t.tags[i]>>)

\* C21: after any sequence of Register and Unregister calls, successful or
\* failed, the indices agree with the name map: a tool is retrievable by
\* Get(its name) if and only if it is listed in GetByCategory(its category)
\* (for a non-empty category) and in GetByTags(t) for each of its tags t, and
\* no index lists a tool that is not in the name map.
C21_IndicesAgreeWithNameMap ==
    /\ \A t \in ToolPool : Retrievable(t) <=> Indexed(t)
    /\ \A c \in DOMAIN categories :
            \A t \in Range(GetByCategory(c)) : t \in All
    /\ \A tag \in DOMAIN tagIndex :
            \A t \in GetByTags(<<tag>>) : t \in All

\* the bucket of an index without the tool; a bucket left empty is absent
WithoutTool(index, key, t) ==
    SelectSeq(IF HasKey(index, key) THEN index[key] ELSE <<>>, LAMBDA u : u # t)

\* the last step was a successful Unregister of the tool t, registered under
\* the name n: it is gone from every index and nothing else changed
UnregisterRemoved(n, t) ==
    /\ GetResult(n)'.err = ErrNotFound
    /\ ~HasTool(n)'
    /\ \A alias \in AliasesOf(n) :
            GetResult(alias)'.err = ErrNotFound /\ ~HasTool(alias)'
    /\ t \notin All'
    /\ \A q \in QueryPool : t \notin Range(FindResult(q))'
    /\ \A c \in DOMAIN categories : t \notin Range(GetByCategory(c))'
    /\ \A tag \in DOMAIN tagIndex : t \notin GetByTags(<<tag>>)'
    /\ \A m \in DOMAIN tools \ {n} : HasKey(tools', m) /\ tools'[m] = tools[m]
    /\ DOMAIN tools' \subseteq DOMAIN tools
    /\ \A alias \in DOMAIN aliases \ AliasesOf(n) :
            HasKey(aliases', alias) /\ aliases'[alias] = aliases[alias]
    /\ DOMAIN aliases' \subseteq DOMAIN aliases
    /\ \A c \in DOMAIN categories \cup DOMAIN categories' :
            GetByCategory(c)' = WithoutTool(categories, c, t)
    /\ \A tag \in DOMAIN tagIndex \cup DOMAIN tagIndex' :
            (IF HasKey(tagIndex', tag) THEN tagIndex'[tag] ELSE <<>>)
                = WithoutTool(tagIndex, tag, t)

\* C22: after Unregister(name) succeeds the tool is gone from every index:
\* Get and Has fail for the name and for each of its former aliases, and the
\* tool appears in no result of All, Find, GetByCategory or GetByTags, while
\* the entries of all other tools are unchanged. Unregister of a name that is
\* not a registered tool name returns ToolNotFound and changes nothing.
C22_UnregisterRemovesEverywhere ==
    [][ \A n \in NamePool :
            (ret'.op = "Unregister" /\ ret'.name = n) =>
                IF HasKey(tools, n)
                THEN /\ ret'.err = NoErr
                     /\ \A t \in ToolPool :
                            t = tools[n] => UnregisterRemoved(n, t)
                ELSE /\ ret'.err = ErrNotFound
                     /\ UNCHANGED <<tools, aliases, categories, tagIndex>> ]_vars

----------------------------------------------------------------------------
(* Tool Registry under concurrent callers: one goroutine in Register or
   Unregister, and readers in Get, Has, Find, GetByCategory, GetByTags, All;
   mu.writer is the writing call and where it stands, mu.readers the calls
   that hold the read lock, mu.given the aliases each stored tool was
   registered with *)

\* this many goroutines read the registry
MaxReaders == 2

Readers == 1..MaxReaders

notLockedVars ==
    <<restVars, textVars, pipeVars, execVars, valVars, gateVars, dispVars, accVars, loopVars>>

\* NewRegistry, no call in progress
UnlockedRegistry == [writer |-> [pc |-> "idle"], readers |-> {}, given |-> EmptyMap]

\* r.mu.Lock() succeeds when no call holds the lock
CanLock == mu.writer.pc = "idle" /\ mu.readers = {}

\* r.mu.RLock() succeeds when no writer holds the lock
CanRLock == mu.writer.pc = "idle"

\* Register: r.mu.Lock()
LockRegister(tool, als) ==
    /\ CanLock
    /\ mu' = [mu EXCEPT !.writer =
                [pc |-> "name", op |-> "Register", tool |-> tool, aliases |-> als,
                 name |-> tool.name, err |-> NoErr]]
    /\ UNCHANGED <<regVars, notLockedVars>>

\* Register: the name check and r.tools[info.Name] = tool
RegisterName ==
    /\ mu.writer.pc = "name"
    /\ IF HasKey(tools, mu.writer.name)
       THEN /\ mu' = [mu EXCEPT !.writer.pc = "return",
                                !.writer.err = ErrRegistered]
            /\ UNCHANGED tools
       ELSE /\ tools' = MapPut(tools, mu.writer.name, mu.writer.tool)
            /\ mu' = [mu EXCEPT !.writer.pc = "aliases",
                                !.given = MapPut(@, mu.writer.name, mu.writer.aliases)]
    /\ UNCHANGED <<aliases, categories, tagIndex, ret, notLockedVars>>

\* Register: the alias loop
RegisterAliasLoop ==
    /\ mu.writer.pc = "aliases"
    /\ mu.writer.op = "Register"
    /\ LET ra == RegisterAliases(aliases, mu.writer.aliases, mu.writer.name) IN
        /\ aliases' = ra.aliases
        /\ mu' = IF ra.err # NoErr
                 THEN [mu EXCEPT !.writer.pc = "return", !.writer.err = ra.err]
                 ELSE [mu EXCEPT !.writer.pc = "category"]
    /\ UNCHANGED <<tools, categories, tagIndex, ret, notLockedVars>>

\* Register: the category index
RegisterCategoryStep ==
    /\ mu.writer.pc = "category"
    /\ mu.writer.op = "Register"
    /\ categories' = RegisterCategory(categories, mu.writer.tool)
    /\ mu' = [mu EXCEPT !.writer.pc = "tags"]
    /\ UNCHANGED <<tools, aliases, tagIndex, ret, notLockedVars>>

\* Register: the tag loop
RegisterTagLoop ==
    /\ mu.writer.pc = "tags"
    /\ mu.writer.op = "Register"
    /\ tagIndex' = RegisterTags(tagIndex, mu.writer.tool.tags, mu.writer.tool)
    /\ mu' = [mu EXCEPT !.writer.pc = "return"]
    /\ UNCHANGED <<tools, aliases, categories, ret, notLockedVars>>

\* Unregister: r.mu.Lock()
LockUnregister(name) ==
    /\ CanLock
    /\ mu' = [mu EXCEPT !.writer =
                [pc |-> "lookup", op |-> "Unregister", tool |-> NoTool,
                 aliases |-> <<>>, name |-> name, err |-> NoErr]]
    /\ UNCHANGED <<regVars, notLockedVars>>

\* Unregister: the lookup and delete(r.tools, name)
UnregisterName ==
    /\ mu.writer.pc = "lookup"
    /\ IF ~HasKey(tools, mu.writer.name)
       THEN /\ mu' = [mu EXCEPT !.writer.pc = "return",
                                !.writer.err = ErrNotFound]
            /\ UNCHANGED tools
       ELSE /\ tools' = MapDelete(tools, mu.writer.name)
            /\ mu' = [mu EXCEPT !.writer.pc = "aliases",
                                !.writer.tool = tools[mu.writer.name],
                                !.given = MapDelete(@, mu.writer.name)]
    /\ UNCHANGED <<aliases, categories, tagIndex, ret, notLockedVars>>

\* Unregister: the alias loop
UnregisterAliasLoop ==
    /\ mu.writer.pc = "aliases"
    /\ mu.writer.op = "Unregister"
    /\ aliases' = UnregisterAliases(aliases, mu.writer.name)
    /\ mu' = [mu EXCEPT !.writer.pc = "category"]
    /\ UNCHANGED <<tools, categories, tagIndex, ret, notLockedVars>>

\* Unregister: the category index
UnregisterCategoryStep ==
    /\ mu.writer.pc = "category"
    /\ mu.writer.op = "Unregister"
    /\ categories' = IF mu.writer.tool.category # ""
                     THEN DropFromBucket(categories, mu.writer.tool.category,
                                         mu.writer.name)
                     ELSE categories
    /\ mu' = [mu EXCEPT !.writer.pc = "tags"]
    /\ UNCHANGED <<tools, aliases, tagIndex, ret, notLockedVars>>

\* Unregister: the tag loop
UnregisterTagLoop ==
    /\ mu.writer.pc = "tags"
    /\ mu.writer.op = "Unregister"
    /\ tagIndex' = UnregisterTags(tagIndex, mu.writer.tool.tags, mu.writer.name)
    /\ mu' = [mu EXCEPT !.writer.pc = "return"]
    /\ UNCHANGED <<tools, aliases, categories, ret, notLockedVars>>

\* Register and Unregister: return, and the deferred r.mu.Unlock()
WriterReturn ==
    /\ mu.writer.pc = "return"
    /\ ret' = [op |-> mu.writer.op, tool |-> mu.writer.tool,
               aliases |-> mu.writer.aliases, name |-> mu.writer.name,
               err |-> mu.writer.err, out |-> <<>>]
    /\ mu' = [mu EXCEPT !.writer = [pc |-> "idle"]]
    /\ UNCHANGED <<tools, aliases, categories, tagIndex, notLockedVars>>

\* a reader: r.mu.RLock()
RLock(r) ==
    /\ CanRLock
    /\ r \notin mu.readers
    /\ mu' = [mu EXCEPT !.readers = @ \cup {r}]
    /\ UNCHANGED <<regVars, notLockedVars>>

\* what a reader returns: the result of Get, Has, Find, GetByCategory,
\* GetByTags or All on the registry as it is
Observations ==
    {[op |-> "Get", tool |-> GetResult(n).tool, aliases |-> <<>>, name |-> n,
      err |-> GetResult(n).err, out |-> <<>>] : n \in NamePool}
    \cup {[op |-> "Has", tool |-> NoTool, aliases |-> <<>>, name |-> n,
           err |-> IF HasTool(n) THEN NoErr ELSE ErrNotFound, out |-> <<>>] :
                n \in NamePool}
    \cup {[op |-> "Find", tool |-> NoTool, aliases |-> <<>>, name |-> q,
           err |-> NoErr, out |-> FindResult(q)] : q \in QueryPool}
    \cup {[op |-> "GetByCategory", tool |-> NoTool, aliases |-> <<>>,
           name |-> empty, err |-> NoErr, out |-> GetByCategory(c)] :
                c \in {"system", "file"}}
    \cup {[op |-> "GetByTags", tool |-> NoTool, aliases |-> <<>>,
           name |-> tag, err |-> NoErr, out |-> SetToSeq(GetByTags(<<tag>>))] :
                tag \in {ls, Shell}}
    \cup {[op |-> "All", tool |-> NoTool, aliases |-> <<>>, name |-> empty,
           err |-> NoErr, out |-> SetToSeq(All)]}

\* a reader: the read, the return and the deferred r.mu.RUnlock()
ReadAndRUnlock(r) ==
    /\ r \in mu.readers
    /\ \E o \in Observations : ret' = o
    /\ mu' = [mu EXCEPT !.readers = @ \ {r}]
    /\ UNCHANGED <<tools, aliases, categories, tagIndex, notLockedVars>>

InitConcurrent ==
    /\ tools = EmptyMap
    /\ aliases = EmptyMap
    /\ categories = EmptyMap
    /\ tagIndex = EmptyMap
    /\ ret = NoCall
    /\ mu = UnlockedRegistry
    /\ sink = NoText
    /\ once = NewAgentMemory
    /\ cli = NoMain
    /\ disk = NewDefaultFileStorage
    /\ ctx = "background"
    /\ schema = NoSchema
    /\ params = EmptyMap
    /\ verr = NotValidated
    /\ stdin = <<>>
    /\ closed = FALSE
    /\ answer = "pending"
    /\ call = NoDispatch
    /\ steps = <<>>
    /\ par = NoParallel
    /\ cond = NoConditional
    /\ lastExec = NoExec
    /\ variant = "none"
    /\ frames = <<>>
    /\ currentToolCall = NilCall
    /\ toolCalls = <<>>
    /\ executed = <<>>
    /\ streamState = "idle"
    /\ mode = "none"
    /\ round = 0
    /\ loopPc = "idle"
    /\ pendingCalls = 0
    /\ messages = <<>>
    /\ roundsStarted = 0
    /\ runErr = "nil"
    /\ roundCalls = <<>>
    /\ lastResult = NoResult

NextConcurrent ==
    \/ \E tool \in ToolPool, als \in AliasLists : LockRegister(tool, als)
    \/ RegisterName
    \/ RegisterAliasLoop
    \/ RegisterCategoryStep
    \/ RegisterTagLoop
    \/ \E name \in NamePool : LockUnregister(name)
    \/ UnregisterName
    \/ UnregisterAliasLoop
    \/ UnregisterCategoryStep
    \/ UnregisterTagLoop
    \/ WriterReturn
    \/ \E r \in Readers : RLock(r)
    \/ \E r \in Readers : ReadAndRUnlock(r)

----------------------------------------------------------------------------
(* Concurrent registry claims *)

\* every tool of the name map has the aliases it was registered with, and
\* is listed under its category and its tags
PresentEverywhere ==
    \A n \in DOMAIN tools :
        /\ Indexed(tools[n])
        /\ \A i \in DOMAIN mu.given[n] :
                /\ HasKey(aliases, mu.given[n][i])
                /\ aliases[mu.given[n][i]] = n

\* every alias, category entry and tag entry belongs to a tool of the name map
NothingLeftBehind ==
    /\ \A alias \in DOMAIN aliases : HasKey(tools, aliases[alias])
    /\ \A c \in DOMAIN categories :
            \A t \in Range(GetByCategory(c)) : t \in All
    /\ \A tag \in DOMAIN tagIndex : \A t \in GetByTags(<<tag>>) : t \in All

\* C23: under any interleaving of a Register or Unregister call with
\* concurrent Get, Has, Find, GetByCategory, GetByTags and All calls, every
\* reader observes either none or all of the writer's index updates: while a
\* reader holds the registry no tool is present under its name but missing
\* from its aliases, category or tags, or the reverse.
C23_ReadersSeeAllOrNothing ==
    mu.readers # {} =>
        /\ mu.writer.pc = "idle"
        /\ PresentEverywhere
        /\ NothingLeftBehind

----------------------------------------------------------------------------
(* Parameters and schema validation: tools/core/base.go *)

\* parameter values: a Go string, int or bool held in the map[string]any
StrVal(s) == [kind |-> "string", s |-> s]
IntVal(n) == [kind |-> "int", n |-> n]
BoolVal(b) == [kind |-> "bool", b |-> b]

Digit(n) == CASE n = 0 -> "0" [] n = 1 -> "1" [] n = 2 -> "2" [] n = 3 -> "3"
              [] n = 4 -> "4" [] n = 5 -> "5" [] n = 6 -> "6" [] n = 7 -> "7"
              [] n = 8 -> "8" [] n = 9 -> "9"

\* the decimal digits of a natural number
RECURSIVE Decimal(_)
Decimal(n) == IF n < 10 THEN <<Digit(n)>> ELSE Append(Decimal(n \div 10), Digit(n % 10))

\* fmt.Sprintf("%v", value)
Sprint(v) ==
    CASE v.kind = "string" -> v.s
      [] v.kind = "int" -> IF v.n < 0 THEN <<"-">> \o Decimal(0 - v.n) ELSE Decimal(v.n)
      [] v.kind = "bool" -> IF v.b THEN <<"t", "r", "u", "e">>
                            ELSE <<"f", "a", "l", "s", "e">>

\* MapParameters.Has
Has(p, key) == HasKey(p, key)

\* MapParameters.GetString on a present key
GetString(p, key) == IF p[key].kind = "string" THEN p[key].s ELSE Sprint(p[key])

\* PropertySchema{Type, Enum, MinLength, MaxLength}
Prop(type, enum, minLength, maxLength) ==
    [type |-> type, enum |-> enum, minLength |-> minLength, maxLength |-> maxLength]

ErrMissing(key) == [kind |-> "missing", key |-> key]
ErrEnum(key) == [kind |-> "enum", key |-> key]
ErrMinLength(key) == [kind |-> "minLength", key |-> key]
ErrMaxLength(key) == [kind |-> "maxLength", key |-> key]
Nil == [kind |-> "nil"]

\* the required loop cut short after its first key
FirstMissingHeadOnly(p, required) ==
    IF required = <<>> THEN Nil
    ELSE IF ~Has(p, Head(required)) THEN ErrMissing(Head(required))
    ELSE Nil

\* Validate, first loop: the first required key that is absent
RECURSIVE FirstMissing(_, _)
FirstMissing(p, required) ==
    IF required = <<>> THEN Nil
    ELSE IF ~Has(p, Head(required)) THEN ErrMissing(Head(required))
    ELSE FirstMissing(p, Tail(required))

\* Validate, second loop body: the error of one property, Nil when it passes
PropertyError(p, key, propSchema) ==
    IF ~Has(p, key) THEN Nil
    ELSE IF Len(propSchema.enum) > 0 /\ Sprint(p[key]) \notin Range(propSchema.enum)
    THEN ErrEnum(key)
    ELSE IF propSchema.type = "string"
    THEN LET strValue == GetString(p, key) IN
         IF propSchema.minLength > 0 /\ Len(strValue) < propSchema.minLength
         THEN ErrMinLength(key)
         ELSE IF propSchema.maxLength > 0 /\ Len(strValue) > propSchema.maxLength
         THEN ErrMaxLength(key)
         ELSE Nil
    ELSE Nil

\* Validate(schema): the errors it can return. The properties are visited in
\* Go's map order, so with several violated properties any of them may be the
\* one reported.
ValidateErrors(p, sch) ==
    LET missing == FirstMissing(p, sch.required) IN
    IF missing # Nil THEN {missing}
    ELSE LET bad == {PropertyError(p, key, sch.properties[key]) :
                        key \in DOMAIN sch.properties} \ {Nil}
         IN IF bad = {} THEN {Nil} ELSE bad

one == <<"1">>
a == <<"a">>
abc == <<"a", "b", "c">>

\* the schemas handed to Validate
SchemaPool ==
    { \* like the bash tool: one required key, optional keys, one of them an enum
      [required |-> <<"command">>,
       properties |-> [command |-> Prop("string", <<>>, 0, 0),
                       cwd |-> Prop("string", <<>>, 0, 0),
                       mode |-> Prop("string", <<a, one>>, 0, 0)]],
      \* like the todo tool: the required key is an enum
      [required |-> <<"command">>,
       properties |-> [command |-> Prop("string", <<ls, one>>, 0, 0),
                       cwd |-> Prop("integer", <<>>, 0, 0)]],
      \* two required keys, the first with length bounds
      [required |-> <<"command", "cwd">>,
       properties |-> [command |-> Prop("string", <<>>, 2, 2),
                       cwd |-> Prop("object", <<>>, 2, 2)]],
      \* nothing required
      [required |-> <<>>,
       properties |-> [mode |-> Prop("string", <<>>, 0, 1)]] }

KeyPool == {"command", "cwd", "mode"}

ValuePool == {StrVal(empty), StrVal(ls), StrVal(abc), IntVal(1), BoolVal(TRUE)}

\* MapParameters.Set(key, value)
Set(key, value) ==
    /\ params' = MapPut(params, key, value)
    /\ verr' = NotValidated
    /\ UNCHANGED schema
    /\ UNCHANGED notValVars

\* MapParameters.Validate(schema)
Validate ==
    /\ \E e \in ValidateErrors(params, schema) : verr' = e
    /\ UNCHANGED <<schema, params>>
    /\ UNCHANGED notValVars

\* NewMapParameters(nil), and the schema of the tool being called
InitValidate ==
    /\ schema \in SchemaPool
    /\ params = EmptyMap
    /\ verr = NotValidated
    /\ tools = EmptyMap
    /\ aliases = EmptyMap
    /\ categories = EmptyMap
    /\ tagIndex = EmptyMap
    /\ ret = NoCall
    /\ stdin = <<>>
    /\ closed = FALSE
    /\ answer = "pending"
    /\ call = NoDispatch
    /\ steps = <<>>
    /\ par = NoParallel
    /\ cond = NoConditional
    /\ mu = Unlocked
    /\ sink = NoText
    /\ once = NewAgentMemory
    /\ cli = NoMain
    /\ disk = NewDefaultFileStorage
    /\ ctx = "background"
    /\ lastExec = NoExec
    /\ variant = "none"
    /\ frames = <<>>
    /\ currentToolCall = NilCall
    /\ toolCalls = <<>>
    /\ executed = <<>>
    /\ streamState = "idle"
    /\ mode = "none"
    /\ round = 0
    /\ loopPc = "idle"
    /\ pendingCalls = 0
    /\ messages = <<>>
    /\ roundsStarted = 0
    /\ runErr = "nil"
    /\ roundCalls = <<>>
    /\ lastResult = NoResult

NextValidate ==
    \/ \E key \in KeyPool, value \in ValuePool : Set(key, value)
    \/ Validate

----------------------------------------------------------------------------
(* Validation claims *)

Validated == verr # NotValidated

RequiredKeys == Range(schema.required)

AllRequiredPresent == \A key \in RequiredKeys : Has(params, key)

\* a key the schema constrains by enum or by string length
Constrained(key) ==
    /\ key \in DOMAIN schema.properties
    /\ LET ps == schema.properties[key] IN
       \/ Len(ps.enum) > 0
       \/ ps.type = "string" /\ (ps.minLength > 0 \/ ps.maxLength > 0)

\* the optional keys that are present carry no enum or length constraint
OptionalKeysUnconstrained ==
    \A key \in (DOMAIN params) \ RequiredKeys : ~Constrained(key)

\* the value of a present key meets the key's enum and length constraints
Satisfies(key) ==
    LET ps == schema.properties[key]
        strValue == GetString(params, key)
    IN /\ Len(ps.enum) > 0 => Sprint(params[key]) \in Range(ps.enum)
       /\ ps.type = "string" =>
            /\ ps.minLength > 0 => Len(strValue) >= ps.minLength
            /\ ps.maxLength > 0 => Len(strValue) <= ps.maxLength

\* C5 as stated: Validate fails when a required key is absent and succeeds
\* when all required keys are present, whatever unconstrained optional keys
\* are present or absent.
C5_RequiredPresentSuffices ==
    Validated =>
        /\ ~AllRequiredPresent => verr # Nil
        /\ (AllRequiredPresent /\ OptionalKeysUnconstrained) => verr = Nil

\* C5 as amended: Validate fails when a required key is absent and, when all
\* required keys are present and the required keys' values meet their own
\* enum and length constraints, succeeds whatever unconstrained optional
\* keys are present or absent.
C5_RequiredPresentAndValidSuffices ==
    Validated =>
        /\ ~AllRequiredPresent => verr.kind = "missing" /\ ~Has(params, verr.key)
        /\ ( /\ AllRequiredPresent
             /\ \A key \in RequiredKeys : Constrained(key) => Satisfies(key)
             /\ OptionalKeysUnconstrained ) => verr = Nil

\* Validate succeeded on parameters that hold the required keys, of which one
\* is constrained, and an optional key besides
C5_Witness ==
    /\ verr = Nil
    /\ RequiredKeys # {}
    /\ \E key \in RequiredKeys : Constrained(key)
    /\ (DOMAIN params) \ RequiredKeys # {}

\* the keys that are present and have a property in the schema
CheckedKeys == (DOMAIN params) \cap (DOMAIN schema.properties)

\* the key has an enum and the value's string form is not a member of it
EnumViolated(key) ==
    LET ps == schema.properties[key] IN
    Len(ps.enum) > 0 /\ \A i \in DOMAIN ps.enum : ps.enum[i] # Sprint(params[key])

\* a length outside [minLength, maxLength]; a bound of 0 is not set
OutsideBounds(n, ps) ==
    \/ ps.minLength > 0 /\ n < ps.minLength
    \/ ps.maxLength > 0 /\ n > ps.maxLength

\* the key is declared a string and holds a string whose length is outside
\* the bounds
StringOutsideBounds(key) ==
    LET ps == schema.properties[key] IN
    /\ ps.type = "string"
    /\ params[key].kind = "string"
    /\ OutsideBounds(Len(params[key].s), ps)

\* C24: when all required keys are present, Validate fails exactly when some
\* present key has an enum in the schema and the value's string form is not
\* a member of that enum, or some present key of declared type "string" has
\* a string value whose length lies outside [minLength, maxLength]; a
\* missing required key is always the constraint reported when one is
\* missing.
C24_ValidateFailsExactlyOnViolation ==
    Validated =>
        /\ AllRequiredPresent =>
            (verr # Nil <=>
                \E key \in CheckedKeys :
                    EnumViolated(key) \/ StringOutsideBounds(key))
        /\ ~AllRequiredPresent => verr.kind = "missing" /\ ~Has(params, verr.key)

----------------------------------------------------------------------------
(* Permission gate: permission.InteractiveManager *)

\* the operator types at most this many characters
MaxInput == 4

NL == "\n"

\* the characters the operator types
Keyboard == {"y", "Y", "e", "s", "n", " ", NL}

IsSpace(c) == c \in {" ", NL, "\t", "\r"}

RECURSIVE TrimLeft(_)
TrimLeft(s) == IF s # <<>> /\ IsSpace(Head(s)) THEN TrimLeft(Tail(s)) ELSE s

RECURSIVE TrimRight(_)
TrimRight(s) ==
    IF s # <<>> /\ IsSpace(s[Len(s)]) THEN TrimRight(SubSeq(s, 1, Len(s) - 1)) ELSE s

\* strings.TrimSpace
TrimSpace(s) == TrimRight(TrimLeft(s))

\* the position of the first line feed, 0 when there is none
FirstNL(s) ==
    IF \E k \in DOMAIN s : s[k] = NL
    THEN CHOOSE k \in DOMAIN s : s[k] = NL /\ \A j \in 1..(k - 1) : s[j] # NL
    ELSE 0

\* bufio.Reader.ReadString('\n') at a point where it returns: the data up to
\* and including the line feed, or all the data and io.EOF
ReadString(input) ==
    LET k == FirstNL(input) IN
    IF k > 0 THEN [data |-> SubSeq(input, 1, k), err |-> "nil"]
    ELSE [data |-> input, err |-> "EOF"]

\* Request with the read error ignored
RequestResultIgnoringErr(input) ==
    LET response == TrimSpace(ToLower(ReadString(input).data)) IN
    response = <<"y">> \/ response = <<"y", "e", "s">>

\* InteractiveManager.Request: what it returns once the read has returned
RequestResult(input) ==
    LET r == ReadString(input) IN
    IF r.err # "nil" THEN FALSE
    ELSE LET response == TrimSpace(ToLower(r.data)) IN
         response = <<"y">> \/ response = <<"y", "e", "s">>

\* the operator types one character while Request blocks
TypeChar(c) ==
    /\ answer = "pending"
    /\ ~closed
    /\ Len(stdin) < MaxInput
    /\ FirstNL(stdin) = 0
    /\ stdin' = Append(stdin, c)
    /\ UNCHANGED <<closed, answer>>
    /\ UNCHANGED notGateVars

\* the operator's input ends
CloseInput ==
    /\ answer = "pending"
    /\ ~closed
    /\ closed' = TRUE
    /\ UNCHANGED <<stdin, answer>>
    /\ UNCHANGED notGateVars

\* Request returns: a line is there, or the input has ended
Request ==
    /\ answer = "pending"
    /\ FirstNL(stdin) > 0 \/ closed
    /\ answer' = IF RequestResult(stdin) THEN "true" ELSE "false"
    /\ UNCHANGED <<stdin, closed>>
    /\ UNCHANGED notGateVars

InitGate ==
    /\ stdin = <<>>
    /\ closed = FALSE
    /\ answer = "pending"
    /\ call = NoDispatch
    /\ steps = <<>>
    /\ par = NoParallel
    /\ cond = NoConditional
    /\ mu = Unlocked
    /\ sink = NoText
    /\ once = NewAgentMemory
    /\ cli = NoMain
    /\ disk = NewDefaultFileStorage
    /\ ctx = "background"
    /\ lastExec = NoExec
    /\ variant = "none"
    /\ frames = <<>>
    /\ currentToolCall = NilCall
    /\ toolCalls = <<>>
    /\ executed = <<>>
    /\ streamState = "idle"
    /\ mode = "none"
    /\ round = 0
    /\ loopPc = "idle"
    /\ pendingCalls = 0
    /\ messages = <<>>
    /\ roundsStarted = 0
    /\ runErr = "nil"
    /\ roundCalls = <<>>
    /\ lastResult = NoResult
    /\ tools = EmptyMap
    /\ aliases = EmptyMap
    /\ categories = EmptyMap
    /\ tagIndex = EmptyMap
    /\ ret = NoCall
    /\ schema = NoSchema
    /\ params = EmptyMap
    /\ verr = NotValidated

NextGate ==
    \/ \E c \in Keyboard : TypeChar(c)
    \/ CloseInput
    \/ Request

----------------------------------------------------------------------------
(* Permission gate claims *)

\* "y" and "yes" in every mix of upper and lower case
YesWords ==
    {<<c>> : c \in {"y", "Y"}} \cup
    {<<c1, c2, c3>> : c1 \in {"y", "Y"}, c2 \in {"e", "E"}, c3 \in {"s", "S"}}

\* a full line was read: the input holds a line feed
FullLine == \E k \in DOMAIN stdin : stdin[k] = NL

\* the line up to its line feed is white space, a yes word, white space
LineSaysYes ==
    \E k \in DOMAIN stdin :
        /\ stdin[k] = NL
        /\ \A j \in 1..(k - 1) : stdin[j] # NL
        /\ \E w \in YesWords, i \in 0..(k - 1) :
            /\ i + Len(w) <= k - 1
            /\ \A j \in 1..Len(w) : stdin[i + j] = w[j]
            /\ \A j \in 1..i : IsSpace(stdin[j])
            /\ \A j \in (i + Len(w) + 1)..(k - 1) : IsSpace(stdin[j])

\* C6: Request returns true if and only if a full line was read whose
\* trimmed, lower-cased content is "y" or "yes"; for any other line, the
\* empty line and a read error (end of input included) it returns false.
C6_GateTrueOnlyForYes ==
    answer # "pending" =>
        /\ answer = "true" <=> (FullLine /\ LineSaysYes)
        /\ ~FullLine => answer = "false"

\* Request returned true for a line with an upper-case letter and a blank
C6_Witness ==
    /\ answer = "true"
    /\ \E j \in DOMAIN stdin : stdin[j] = "Y"
    /\ \E j \in DOMAIN stdin : stdin[j] = " "

----------------------------------------------------------------------------
(* Tool dispatch: the adapters of package tools and core.ToolPipeline *)

\* a sequential pipeline holds at most this many steps
MaxSteps == 2

\* core tools by Info().Name and Info().RequiresPerm
CoreTool(name, requiresPerm) == [name |-> name, requiresPerm |-> requiresPerm]

readTool == CoreTool("read", FALSE)
writeTool == CoreTool("write", TRUE)
bashTool == CoreTool("bash", TRUE)
todoTool == CoreTool("todo", FALSE)

\* a core.Tool value: a tool itself, or a PermissionWrappedTool around one
Plain(t) == [kind |-> "core", tool |-> t]
Wrapped(t) == [kind |-> "wrapped", tool |-> t]

Info(x) == x.tool

\* CreateToolSet: the CoreToolAdapters with their needsPerm flags
CreateToolSet ==
    { [tool |-> Plain(readTool), needsPerm |-> FALSE],
      [tool |-> Plain(writeTool), needsPerm |-> TRUE],
      [tool |-> Plain(bashTool), needsPerm |-> TRUE],
      [tool |-> Plain(todoTool), needsPerm |-> FALSE] }

\* CreateLegacyToolSet: LegacyToolAdapters, write and bash wrapped
CreateLegacyToolSet ==
    { [tool |-> Plain(readTool)], [tool |-> Wrapped(writeTool)],
      [tool |-> Wrapped(bashTool)], [tool |-> Plain(todoTool)] }

\* AdaptAllTools: a LegacyToolAdapter around every tool of the registry
AdaptAllTools ==
    { [tool |-> Plain(t)] : t \in {readTool, writeTool, bashTool, todoTool} }

\* what a pipeline step can hold
StepTools ==
    {Plain(t) : t \in {readTool, bashTool}} \cup {Wrapped(bashTool)}

EvRequest(name, granted) == [ev |-> "request", tool |-> name, granted |-> granted]
EvExecute(name) == [ev |-> "execute", tool |-> name]

ErrPermissionDenied == "PERMISSION_DENIED"
ErrExecutionFailed == "EXECUTION_FAILED"

\* Execute of a core tool body: it runs, and succeeds or fails
CoreExecute(t, ok) ==
    [events |-> <<EvExecute(t.name)>>,
     err |-> IF ok THEN "nil" ELSE ErrExecutionFailed]

\* PermissionWrappedTool.Execute
PermissionWrappedExecute(t, granted, ok) ==
    IF ~granted
    THEN [events |-> <<EvRequest(t.name, FALSE)>>, err |-> ErrPermissionDenied]
    ELSE [events |-> <<EvRequest(t.name, TRUE)>> \o CoreExecute(t, ok).events,
          err |-> CoreExecute(t, ok).err]

\* Execute through the core.Tool interface
ToolExecute(x, granted, ok) ==
    IF x.kind = "wrapped" THEN PermissionWrappedExecute(x.tool, granted, ok)
    ELSE CoreExecute(x.tool, ok)

\* CoreToolAdapter.Execute
CoreToolAdapterExecute(ad, granted, ok) ==
    IF ad.needsPerm /\ ~granted
    THEN [events |-> <<EvRequest(Info(ad.tool).name, FALSE)>>,
          err |-> ErrPermissionDenied]
    ELSE LET r == ToolExecute(ad.tool, granted, ok) IN
         [events |-> (IF ad.needsPerm
                      THEN <<EvRequest(Info(ad.tool).name, TRUE)>> ELSE <<>>)
                     \o r.events,
          err |-> r.err]

\* LegacyToolAdapter.Execute
LegacyToolAdapterExecute(ad, granted, ok) == ToolExecute(ad.tool, granted, ok)

\* one call of step.Tool.Execute by a pipeline: which step, which tool, and
\* whether it returned without error
Attempt(i, name, ok) == [step |-> i, tool |-> name, ok |-> ok]

\* a pipeline that goes on with the next step after a failed one
RECURSIVE PipelineFromContinuing(_, _, _, _, _, _)
PipelineFromContinuing(ss, i, granted, ok, cancelAt, acc) ==
    IF i >= Len(ss) THEN acc
    ELSE LET step == ss[i + 1]
             r == ToolExecute(step, granted[i + 1], ok[i + 1])
         IN PipelineFromContinuing(ss, i + 1, granted, ok, cancelAt,
                [acc EXCEPT !.events = acc.events \o r.events,
                            !.attempts = Append(acc.attempts,
                                Attempt(i, Info(step).name, r.err = "nil")),
                            !.results = Append(acc.results,
                                [success |-> r.err = "nil", step |-> i,
                                 tool |-> Info(step).name]),
                            !.err = IF r.err = "nil" THEN acc.err ELSE "failed",
                            !.at = IF r.err = "nil" THEN acc.at ELSE i,
                            !.tool = IF r.err = "nil" THEN acc.tool
                                     ELSE Info(step).name])

\* a pipeline that looks at the context after a step instead of before it
RECURSIVE PipelineFromCheckingAfter(_, _, _, _, _, _)
PipelineFromCheckingAfter(ss, i, granted, ok, cancelAt, acc) ==
    IF i >= Len(ss) THEN acc
    ELSE LET step == ss[i + 1]
             r == ToolExecute(step, granted[i + 1], ok[i + 1])
             after == [acc EXCEPT !.events = acc.events \o r.events,
                                  !.attempts = Append(acc.attempts,
                                        Attempt(i, Info(step).name, r.err = "nil")),
                                  !.results = Append(acc.results,
                                        [success |-> r.err = "nil", step |-> i,
                                         tool |-> Info(step).name])]
         IN IF r.err # "nil"
            THEN [after EXCEPT !.err = "failed", !.at = i, !.tool = Info(step).name]
            ELSE IF cancelAt <= i
            THEN [after EXCEPT !.err = "cancelled", !.at = i]
            ELSE PipelineFromCheckingAfter(ss, i + 1, granted, ok, cancelAt, after)

\* ToolPipeline.Execute from step i on (i counts from 0 as in the code):
\* cancelAt is the first step at which the context is seen cancelled
RECURSIVE PipelineFrom(_, _, _, _, _, _)
PipelineFrom(ss, i, granted, ok, cancelAt, acc) ==
    IF i >= Len(ss) THEN acc
    ELSE IF cancelAt <= i
    THEN [acc EXCEPT !.err = "cancelled", !.at = i]
    ELSE LET step == ss[i + 1]
             r == ToolExecute(step, granted[i + 1], ok[i + 1])
             events == acc.events \o r.events
             attempts == Append(acc.attempts,
                            Attempt(i, Info(step).name, r.err = "nil"))
         IN IF r.err # "nil"
            THEN [events |-> events,
                  attempts |-> attempts,
                  results |-> Append(acc.results,
                                [success |-> FALSE, step |-> i,
                                 tool |-> Info(step).name]),
                  err |-> "failed", at |-> i, tool |-> Info(step).name]
            ELSE PipelineFrom(ss, i + 1, granted, ok, cancelAt,
                    [acc EXCEPT !.events = events,
                                !.attempts = attempts,
                                !.results = Append(acc.results,
                                    [success |-> TRUE, step |-> i,
                                     tool |-> Info(step).name])])

ToolPipelineExecute(ss, granted, ok, cancelAt) ==
    PipelineFrom(ss, 0, granted, ok, cancelAt,
        [events |-> <<>>, attempts |-> <<>>, results |-> <<>>, err |-> "nil",
         at |-> 0, tool |-> "none"])

\* PipelineTool.executeSequential from command i on: every command is run by
\* the bash tool; a result entry holds the command's index and its success
RECURSIVE ExecuteSequentialFrom(_, _, _, _, _)
ExecuteSequentialFrom(n, i, ok, stopOnError, acc) ==
    IF i >= n THEN acc
    ELSE LET r == CoreExecute(bashTool, ok[i + 1])
             next == [events |-> acc.events \o r.events,
                      attempts |-> Append(acc.attempts,
                                    Attempt(i, bashTool.name, r.err = "nil")),
                      results |-> Append(acc.results,
                                    [success |-> r.err = "nil", step |-> i,
                                     tool |-> "none"])]
         IN IF r.err # "nil" /\ stopOnError THEN next
            ELSE ExecuteSequentialFrom(n, i + 1, ok, stopOnError, next)

\* the agent calls a tool of CreateToolSet
DispatchCoreAdapter(ad, granted, ok) ==
    /\ LET r == CoreToolAdapterExecute(ad, granted, ok) IN
       call' = [path |-> "CoreToolAdapter", events |-> r.events, err |-> r.err,
                results |-> <<>>, attempts |-> <<>>, errStep |-> 0,
                errTool |-> "none", stopOnError |-> TRUE]
    /\ UNCHANGED <<steps, notDispVars>>

\* the agent calls a tool of CreateLegacyToolSet
DispatchLegacyAdapter(ad, granted, ok) ==
    /\ LET r == LegacyToolAdapterExecute(ad, granted, ok) IN
       call' = [path |-> "CreateLegacyToolSet", events |-> r.events, err |-> r.err,
                results |-> <<>>, attempts |-> <<>>, errStep |-> 0,
                errTool |-> "none", stopOnError |-> TRUE]
    /\ UNCHANGED <<steps, notDispVars>>

\* a caller runs a tool handed out by AdaptAllTools
DispatchAdaptedTool(ad, granted, ok) ==
    /\ LET r == LegacyToolAdapterExecute(ad, granted, ok) IN
       call' = [path |-> "AdaptAllTools", events |-> r.events, err |-> r.err,
                results |-> <<>>, attempts |-> <<>>, errStep |-> 0,
                errTool |-> "none", stopOnError |-> TRUE]
    /\ UNCHANGED <<steps, notDispVars>>

\* ToolPipeline.Add
Add(tool) ==
    /\ Len(steps) < MaxSteps
    /\ steps' = Append(steps, tool)
    /\ UNCHANGED <<call, notDispVars>>

\* ToolPipeline.Execute on the steps added so far; the call keeps the number
\* of steps and the step before which the context was cancelled (the number
\* of steps when it never was)
Execute ==
    \E granted \in [1..Len(steps) -> BOOLEAN], ok \in [1..Len(steps) -> BOOLEAN],
       cancelAt \in 0..Len(steps) :
        /\ LET r == ToolPipelineExecute(steps, granted, ok, cancelAt) IN
           call' = [path |-> "ToolPipeline", events |-> r.events, err |-> r.err,
                    results |-> r.results, attempts |-> r.attempts,
                    errStep |-> r.at, errTool |-> r.tool, stopOnError |-> TRUE,
                    cancelledAt |-> cancelAt, stepCount |-> Len(steps)]
        /\ UNCHANGED <<steps, notDispVars>>

\* PipelineTool.Execute in sequential mode on n commands; it returns a
\* result that holds the result entries, and no error
PipelineToolExecute ==
    \E n \in 1..MaxSteps, stopOnError \in BOOLEAN :
    \E ok \in [1..n -> BOOLEAN] :
        /\ LET r == ExecuteSequentialFrom(n, 0, ok, stopOnError,
                        [events |-> <<>>, attempts |-> <<>>, results |-> <<>>]) IN
           call' = [path |-> "PipelineTool", events |-> r.events, err |-> "nil",
                    results |-> r.results, attempts |-> r.attempts,
                    errStep |-> 0, errTool |-> "none",
                    stopOnError |-> stopOnError]
        /\ UNCHANGED <<steps, notDispVars>>

InitDispatch ==
    /\ call = NoDispatch
    /\ steps = <<>>
    /\ par = NoParallel
    /\ cond = NoConditional
    /\ mu = Unlocked
    /\ sink = NoText
    /\ once = NewAgentMemory
    /\ cli = NoMain
    /\ disk = NewDefaultFileStorage
    /\ ctx = "background"
    /\ lastExec = NoExec
    /\ variant = "none"
    /\ frames = <<>>
    /\ currentToolCall = NilCall
    /\ toolCalls = <<>>
    /\ executed = <<>>
    /\ streamState = "idle"
    /\ mode = "none"
    /\ round = 0
    /\ loopPc = "idle"
    /\ pendingCalls = 0
    /\ messages = <<>>
    /\ roundsStarted = 0
    /\ runErr = "nil"
    /\ roundCalls = <<>>
    /\ lastResult = NoResult
    /\ tools = EmptyMap
    /\ aliases = EmptyMap
    /\ categories = EmptyMap
    /\ tagIndex = EmptyMap
    /\ ret = NoCall
    /\ schema = NoSchema
    /\ params = EmptyMap
    /\ verr = NotValidated
    /\ stdin = <<>>
    /\ closed = FALSE
    /\ answer = "pending"

NextDispatch ==
    \/ \E ad \in CreateToolSet, granted \in BOOLEAN, ok \in BOOLEAN :
            DispatchCoreAdapter(ad, granted, ok)
    \/ \E ad \in CreateLegacyToolSet, granted \in BOOLEAN, ok \in BOOLEAN :
            DispatchLegacyAdapter(ad, granted, ok)
    \/ \E ad \in AdaptAllTools, granted \in BOOLEAN, ok \in BOOLEAN :
            DispatchAdaptedTool(ad, granted, ok)
    \/ \E tool \in StepTools : Add(tool)
    \/ Execute
    \/ PipelineToolExecute

----------------------------------------------------------------------------
(* Dispatch claims *)

RequiresPerm(name) ==
    \E t \in {readTool, writeTool, bashTool, todoTool} :
        t.name = name /\ t.requiresPerm

\* C7: on every path, a tool whose Info().RequiresPerm is true executes only
\* directly after a permission Request for it returned true, and a Request
\* that returned false is followed by no Execute and yields PermissionDenied.
C7_PermissionBeforeExecute ==
    \A i \in DOMAIN call.events :
        /\ (call.events[i].ev = "execute" /\ RequiresPerm(call.events[i].tool)) =>
              /\ i > 1
              /\ call.events[i - 1] = EvRequest(call.events[i].tool, TRUE)
        /\ (call.events[i].ev = "request" /\ ~call.events[i].granted) =>
              /\ i = Len(call.events)
              /\ call.err # "nil"

\* the last dispatch ran a sequence of steps
StepsInOrder == \A i \in DOMAIN call.attempts : call.attempts[i].step = i - 1

\* no step was attempted after a failed one
StoppedAtFirstFailure ==
    \A i \in DOMAIN call.attempts :
        ~call.attempts[i].ok => i = Len(call.attempts)

\* one result per attempted step, each telling its step and its success
ResultPerAttempt ==
    /\ Len(call.results) = Len(call.attempts)
    /\ \A i \in DOMAIN call.results :
        /\ call.results[i].step = call.attempts[i].step
        /\ call.results[i].success = call.attempts[i].ok

LastAttemptFailed ==
    call.attempts # <<>> /\ ~call.attempts[Len(call.attempts)].ok

\* the returned error names the failing step's index and tool
ErrorNamesFailingStep ==
    LastAttemptFailed =>
        /\ call.err = "failed"
        /\ call.errStep = call.attempts[Len(call.attempts)].step
        /\ call.errTool = call.attempts[Len(call.attempts)].tool

\* C14 as stated: every sequential pipeline, ToolPipeline and the sequential
\* mode of PipelineTool alike, executes its steps in order, stops at the
\* first failing step, returns as many results as steps were attempted, and
\* returns an error naming the failing step's index and tool.
C14_SequentialStopsAtFirstFailure ==
    call.path \in {"ToolPipeline", "PipelineTool"} =>
        /\ StepsInOrder
        /\ StoppedAtFirstFailure
        /\ ResultPerAttempt
        /\ ErrorNamesFailingStep

\* C14 amended: ToolPipeline does all of that; PipelineTool in sequential mode
\* stops at the first failing command when stop_on_error is true, with as
\* many result entries as commands attempted, the last one being the failed
\* command's entry with its index, and PipelineTool.Execute returns no error.
C14_ToolPipelineStopsAtFirstFailure ==
    /\ call.path = "ToolPipeline" =>
        /\ StepsInOrder
        /\ StoppedAtFirstFailure
        /\ ResultPerAttempt
        /\ ErrorNamesFailingStep
    /\ call.path = "PipelineTool" =>
        /\ StepsInOrder
        /\ ResultPerAttempt
        /\ call.stopOnError => StoppedAtFirstFailure
        /\ call.err = "nil"

\* a ToolPipeline of two steps failed at its first step
C14_Witness ==
    /\ call.path = "ToolPipeline"
    /\ Len(steps) = 2
    /\ call.attempts = <<Attempt(0, "bash", FALSE)>>
    /\ Len(call.results) = 1
    /\ call.errStep = 0 /\ call.errTool = "bash"

\* ToolPipeline.Execute came to a step before which the context was cancelled
CancelledBeforeStep ==
    /\ call.path = "ToolPipeline"
    /\ call.cancelledAt < call.stepCount
    /\ \A k \in DOMAIN call.attempts : call.attempts[k].ok

\* C40: a Sequential pipeline checks the context before each step: if the
\* context is already cancelled when step i is about to start, neither step i
\* nor any later step is executed, and Execute returns the results of steps
\* 0..i-1 together with an error that names step i as the point of
\* cancellation.
C40_CancelledBeforeStep ==
    /\ call.path = "ToolPipeline" =>
        \A k \in DOMAIN call.attempts : call.attempts[k].step < call.cancelledAt
    /\ CancelledBeforeStep =>
        /\ call.err = "cancelled"
        /\ call.errStep = call.cancelledAt
        /\ Len(call.attempts) = call.cancelledAt
        /\ Len(call.results) = call.cancelledAt
        /\ \A k \in DOMAIN call.results :
            /\ call.attempts[k].step = k - 1
            /\ call.results[k].step = k - 1
            /\ call.results[k].success

\* the context was cancelled before the second of two steps: one result and
\* an error at step 1
C40_Witness ==
    /\ call.path = "ToolPipeline"
    /\ call.stepCount = 2
    /\ call.cancelledAt = 1
    /\ call.err = "cancelled"
    /\ call.errStep = 1
    /\ Len(call.results) = 1
    /\ call.attempts = <<Attempt(0, Info(steps[1]).name, TRUE)>>

----------------------------------------------------------------------------
(* Parallel pipeline: core.ParallelPipeline *)

\* a parallel pipeline holds at most this many steps
MaxParallel == 3

\* an entry of make([]Result, n) that no goroutine has written
NilResult == [nil |-> TRUE]

\* every goroutine writes the first slot
SlotShared(idx) == 1

\* the slot of results and errors the goroutine of step idx writes
\* (slots count from 1 here, from 0 in the code)
Slot(idx) == idx

\* NewParallelPipeline
NewParallelPipeline ==
    /\ par.state # "running"
    /\ steps' = <<>>
    /\ par' = NoParallel
    /\ call' = NoDispatch
    /\ UNCHANGED <<cond, notPipeVars>>

\* ParallelPipeline.Add
ParallelAdd(tool) ==
    /\ par.state = "idle"
    /\ Len(steps) < MaxParallel
    /\ steps' = Append(steps, tool)
    /\ UNCHANGED <<call, par, cond, notPipeVars>>

\* ParallelPipeline.Execute up to wg.Wait: the slices are made and one
\* goroutine per step is started
ParallelExecute ==
    /\ par.state = "idle"
    /\ par' = [state |-> "running", steps |-> steps,
               results |-> [i \in 1..Len(steps) |-> NilResult],
               errors |-> [i \in 1..Len(steps) |-> "nil"],
               done |-> {}, cancelled |-> FALSE,
               outcome |-> [i \in 1..Len(steps) |-> "pending"],
               finished |-> <<>>]
    /\ UNCHANGED <<call, steps, cond, notPipeVars>>

\* the governing context is cancelled while the goroutines run
CancelContext ==
    /\ par.state = "running"
    /\ ~par.cancelled
    /\ par' = [par EXCEPT !.cancelled = TRUE]
    /\ UNCHANGED <<call, steps, cond, notPipeVars>>

\* the goroutine of step idx: it checks the context, executes its tool,
\* writes its slots and calls wg.Done
Worker(idx, granted, ok) ==
    /\ par.state = "running"
    /\ idx \in 1..Len(par.steps)
    /\ idx \notin par.done
    /\ LET step == par.steps[idx]
           r == ToolExecute(step, granted, ok)
           err == IF par.cancelled THEN "context canceled" ELSE r.err
           result == [success |-> err = "nil", step |-> idx,
                      tool |-> Info(step).name]
       IN par' = [par EXCEPT !.errors[Slot(idx)] = err,
                             !.results[Slot(idx)] = result,
                             !.done = @ \cup {idx},
                             !.finished = Append(@, idx),
                             !.outcome[idx] =
                                IF par.cancelled THEN "cancelled"
                                ELSE IF r.err = "nil" THEN "ok" ELSE "failed"]
    /\ UNCHANGED <<call, steps, cond, notPipeVars>>

\* the error of the goroutine that was the first to fail
EarliestError(errors, ss) ==
    IF \E i \in DOMAIN errors : errors[i] # "nil"
    THEN LET k == CHOOSE k \in DOMAIN par.finished :
                    /\ errors[par.finished[k]] # "nil"
                    /\ \A j \in 1..(k - 1) : errors[par.finished[j]] = "nil"
             i == par.finished[k]
         IN [err |-> "failed", step |-> i, tool |-> Info(ss[i]).name]
    ELSE [err |-> "nil", step |-> 0, tool |-> "none"]

\* the first non-nil entry of errors, wrapped with the name of its step's tool
FirstError(errors, ss) ==
    IF \E i \in DOMAIN errors : errors[i] # "nil"
    THEN LET i == CHOOSE i \in DOMAIN errors :
                    /\ errors[i] # "nil"
                    /\ \A j \in DOMAIN errors : errors[j] # "nil" => i <= j
         IN [err |-> "failed", step |-> i, tool |-> Info(ss[i]).name]
    ELSE [err |-> "nil", step |-> 0, tool |-> "none"]

\* ParallelPipeline.Execute after wg.Wait: the first error is picked and
\* the results are returned
ParallelJoin ==
    /\ par.state = "running"
    /\ par.done = 1..Len(par.steps)
    /\ LET e == FirstError(par.errors, par.steps) IN
       call' = [path |-> "ParallelPipeline", events |-> <<>>, err |-> e.err,
                results |-> par.results, attempts |-> <<>>,
                errStep |-> e.step, errTool |-> e.tool, stopOnError |-> FALSE]
    /\ par' = [par EXCEPT !.state = "returned"]
    /\ UNCHANGED <<steps, cond, notPipeVars>>

InitParallel ==
    /\ call = NoDispatch
    /\ steps = <<>>
    /\ par = NoParallel
    /\ cond = NoConditional
    /\ mu = Unlocked
    /\ sink = NoText
    /\ once = NewAgentMemory
    /\ cli = NoMain
    /\ disk = NewDefaultFileStorage
    /\ ctx = "background"
    /\ lastExec = NoExec
    /\ variant = "none"
    /\ frames = <<>>
    /\ currentToolCall = NilCall
    /\ toolCalls = <<>>
    /\ executed = <<>>
    /\ streamState = "idle"
    /\ mode = "none"
    /\ round = 0
    /\ loopPc = "idle"
    /\ pendingCalls = 0
    /\ messages = <<>>
    /\ roundsStarted = 0
    /\ runErr = "nil"
    /\ roundCalls = <<>>
    /\ lastResult = NoResult
    /\ tools = EmptyMap
    /\ aliases = EmptyMap
    /\ categories = EmptyMap
    /\ tagIndex = EmptyMap
    /\ ret = NoCall
    /\ schema = NoSchema
    /\ params = EmptyMap
    /\ verr = NotValidated
    /\ stdin = <<>>
    /\ closed = FALSE
    /\ answer = "pending"

NextParallel ==
    \/ NewParallelPipeline
    \/ \E tool \in StepTools : ParallelAdd(tool)
    \/ ParallelExecute
    \/ CancelContext
    \/ \E idx \in 1..MaxParallel, granted \in BOOLEAN, ok \in BOOLEAN :
            Worker(idx, granted, ok)
    \/ ParallelJoin

----------------------------------------------------------------------------
(* Parallel pipeline claims *)

\* the steps of the returned run that did not succeed
FailedSteps == {i \in DOMAIN par.outcome : par.outcome[i] # "ok"}

\* C15: a Parallel pipeline of n steps returns exactly n results, result i
\* belonging to step i, a success result for every step that succeeded and
\* an error result for every step that failed; when at least one step
\* failed it returns one aggregated error that names the tool of a failing
\* step, and nil when none failed.
C15_ParallelReturnsAllResults ==
    par.state = "returned" =>
        /\ Len(call.results) = Len(par.steps)
        /\ \A i \in DOMAIN call.results :
            /\ call.results[i] # NilResult
            /\ call.results[i].step = i
            /\ call.results[i].success = (par.outcome[i] = "ok")
        /\ FailedSteps # {} =>
            /\ call.err = "failed"
            /\ \E i \in FailedSteps : call.errTool = Info(par.steps[i]).name
        /\ FailedSteps = {} => call.err = "nil"

\* three steps, the second one failed: three results and an error naming
\* the second step's tool
C15_Witness ==
    /\ par.state = "returned"
    /\ par.steps = <<Plain(readTool), Plain(bashTool), Plain(readTool)>>
    /\ par.outcome = <<"ok", "failed", "ok">>
    /\ Len(call.results) = 3
    /\ call.errTool = "bash"

\* C39: the error a Parallel pipeline returns is determined by step order,
\* not by timing: it always names the failing step with the lowest index,
\* whatever order the workers start and finish in, so two runs with the same
\* step outcomes return the same error.
C39_ErrorNamesLowestFailingStep ==
    (par.state = "returned" /\ FailedSteps # {}) =>
        \E i \in FailedSteps :
            /\ \A j \in FailedSteps : i <= j
            /\ call.err = "failed"
            /\ call.errStep = i
            /\ call.errTool = Info(par.steps[i]).name

\* the third step failed before the second did: the error names the second
C39_Witness ==
    /\ par.state = "returned"
    /\ par.finished = <<3, 2, 1>>
    /\ par.outcome = <<"ok", "failed", "failed">>
    /\ Info(par.steps[2]).name # Info(par.steps[3]).name
    /\ call.errStep = 2
    /\ call.errTool = Info(par.steps[2]).name

----------------------------------------------------------------------------
(* Parallel pipelines goroutine by goroutine: ParallelPipeline.Execute and
   PipelineTool.executeParallel, their slots and their join *)

\* the two slices of n elements each, with the goroutines that have assigned
\* to each element so far
NoWrites(n) == [e \in {"results", "errors"} \X (1..n) |-> <<>>]

\* neither function is running
NoWorkers ==
    [state |-> "idle", kind |-> "none", pc |-> <<>>, outcome |-> <<>>,
     writes |-> NoWrites(0), wg |-> 0, reads |-> <<>>]

\* goroutine worker assigns to slice[slot]
Write(writes, worker, slice, slot) ==
    [writes EXCEPT ![<<slice, slot>>] = Append(@, worker)]

\* what a step can come to: executeParallel has no check of the context
Outcomes(kind) ==
    IF kind = "ParallelPipeline" THEN {"ok", "failed", "cancelled"}
    ELSE {"ok", "failed"}

\* the slices are made, wg.Add(n) is called (or the done channel made with
\* room for n), and one goroutine per step is started
StartWorkers(kind, n) ==
    /\ par.state = "idle"
    /\ par' = [state |-> "running", kind |-> kind,
               pc |-> [i \in 1..n |-> "run"],
               outcome |-> [i \in 1..n |-> "pending"],
               writes |-> NoWrites(n), wg |-> n, reads |-> <<>>]
    /\ UNCHANGED <<call, steps, cond, notPipeVars>>

\* goroutine idx checks the context and executes its tool; what it writes
\* next depends on how that ended
GoExecute(idx, outcome) ==
    /\ par.state # "idle"
    /\ idx \in DOMAIN par.pc
    /\ par.pc[idx] = "run"
    /\ outcome \in Outcomes(par.kind)
    /\ par' = [par EXCEPT !.outcome[idx] = outcome,
                          !.pc[idx] = IF par.kind = "ParallelPipeline" /\ outcome # "ok"
                                      THEN "errors" ELSE "results"]
    /\ UNCHANGED <<call, steps, cond, notPipeVars>>

\* errors[idx] = err
GoWriteError(idx) ==
    /\ par.state # "idle"
    /\ idx \in DOMAIN par.pc
    /\ par.pc[idx] = "errors"
    /\ par' = [par EXCEPT !.writes = Write(@, idx, "errors", Slot(idx)),
                          !.pc[idx] = "results"]
    /\ UNCHANGED <<call, steps, cond, notPipeVars>>

\* results[idx] = result
GoWriteResult(idx) ==
    /\ par.state # "idle"
    /\ idx \in DOMAIN par.pc
    /\ par.pc[idx] = "results"
    /\ par' = [par EXCEPT !.writes = Write(@, idx, "results", Slot(idx)),
                          !.pc[idx] = "exit"]
    /\ UNCHANGED <<call, steps, cond, notPipeVars>>

\* the deferred wg.Done() (or done <- struct{}{}) of goroutine idx
GoDone(idx) ==
    /\ par.state # "idle"
    /\ idx \in DOMAIN par.pc
    /\ par.pc[idx] = "exit"
    /\ par' = [par EXCEPT !.wg = @ - 1, !.pc[idx] = "done"]
    /\ UNCHANGED <<call, steps, cond, notPipeVars>>

\* a join that does not block
WaitSkipped(p) == TRUE

\* wg.Wait() returns (or the n-th receive from done): every goroutine has
\* called Done
WaitReturns(p) == p.wg = 0

\* the function goes past its join, reads the slots and returns; reads keeps
\* where each goroutine stood at that moment
JoinAndRead ==
    /\ par.state = "running"
    /\ WaitReturns(par)
    /\ par' = [par EXCEPT !.state = "returned", !.reads = par.pc]
    /\ UNCHANGED <<call, steps, cond, notPipeVars>>

\* the caller is done with the results
ForgetWorkers ==
    /\ par.state = "returned"
    /\ \A i \in DOMAIN par.pc : par.pc[i] = "done"
    /\ par' = NoWorkers
    /\ UNCHANGED <<call, steps, cond, notPipeVars>>

InitSlots ==
    /\ call = NoDispatch
    /\ steps = <<>>
    /\ par = NoWorkers
    /\ cond = NoConditional
    /\ mu = Unlocked
    /\ sink = NoText
    /\ once = NewAgentMemory
    /\ cli = NoMain
    /\ disk = NewDefaultFileStorage
    /\ ctx = "background"
    /\ lastExec = NoExec
    /\ variant = "none"
    /\ frames = <<>>
    /\ currentToolCall = NilCall
    /\ toolCalls = <<>>
    /\ executed = <<>>
    /\ streamState = "idle"
    /\ mode = "none"
    /\ round = 0
    /\ loopPc = "idle"
    /\ pendingCalls = 0
    /\ messages = <<>>
    /\ roundsStarted = 0
    /\ runErr = "nil"
    /\ roundCalls = <<>>
    /\ lastResult = NoResult
    /\ tools = EmptyMap
    /\ aliases = EmptyMap
    /\ categories = EmptyMap
    /\ tagIndex = EmptyMap
    /\ ret = NoCall
    /\ schema = NoSchema
    /\ params = EmptyMap
    /\ verr = NotValidated
    /\ stdin = <<>>
    /\ closed = FALSE
    /\ answer = "pending"

NextSlots ==
    \/ \E kind \in {"ParallelPipeline", "executeParallel"}, n \in 0..MaxParallel :
            StartWorkers(kind, n)
    \/ \E idx \in 1..MaxParallel, outcome \in {"ok", "failed", "cancelled"} :
            GoExecute(idx, outcome)
    \/ \E idx \in 1..MaxParallel : GoWriteError(idx)
    \/ \E idx \in 1..MaxParallel : GoWriteResult(idx)
    \/ \E idx \in 1..MaxParallel : GoDone(idx)
    \/ JoinAndRead
    \/ ForgetWorkers

\* C34: in a Parallel pipeline every worker writes only the result and
\* error slot of its own step, no slot is written more than once (the result
\* slot exactly once, the error slot once when the step did not succeed), and
\* the slots are read only after all workers have finished: under no
\* interleaving do two workers write the same slot or does Execute read a
\* slot that its worker may still write, and Execute does not return while
\* any worker is running.
C34_SlotsWrittenOnceReadAfterJoin ==
    /\ \A e \in DOMAIN par.writes :
        /\ \A k \in DOMAIN par.writes[e] : par.writes[e][k] = e[2]
        /\ Len(par.writes[e]) <= 1
    /\ par.state = "returned" =>
        /\ \A i \in DOMAIN par.reads : par.reads[i] = "done"
        /\ \A i \in DOMAIN par.pc :
            /\ par.writes[<<"results", i>>] = <<i>>
            /\ par.writes[<<"errors", i>>] =
                  IF par.kind = "ParallelPipeline" /\ par.outcome[i] # "ok"
                  THEN <<i>> ELSE <<>>

\* C34 as stated: when ParallelPipeline.Execute has returned, every result
\* slot and every error slot has been written exactly once, by its own worker
C34_EverySlotWrittenExactlyOnce ==
    (par.state = "returned" /\ par.kind = "ParallelPipeline") =>
        \A e \in DOMAIN par.writes : par.writes[e] = <<e[2]>>

\* ParallelPipeline.Execute has returned from three goroutines, one failed
\* and one cancelled, and has read all six slots
C34_Witness ==
    /\ par.state = "returned"
    /\ par.kind = "ParallelPipeline"
    /\ par.outcome = <<"failed", "ok", "cancelled">>
    /\ par.reads = <<"done", "done", "done">>
    /\ par.writes[<<"errors", 3>>] = <<3>>
    /\ par.writes[<<"results", 2>>] = <<2>>

----------------------------------------------------------------------------
(* The todo file: session.FileStorage.Save and Load *)

notStoreVars ==
    <<once, cli, ctx, lockVars, textVars, pipeVars, execVars, regVars, valVars, gateVars,
      dispVars, accVars, loopVars>>

\* the item maps that are saved, and the number of write calls that a
\* document takes
MaxItems == 2

DocLen == 2

\* json.MarshalIndent(items): the document of an item map, chunk by chunk
Document(v) == [i \in 1..DocLen |-> v]

\* a file holds a whole document, or does not exist
Complete(f) == f.exists => \E v \in 1..MaxItems : f.data = Document(v)

\* a Lock that does not wait
MutexIgnored(f, st) == TRUE

\* fs.mu.Lock() of store st can be taken
MutexFree(f, st) == f.mu[st] = 0

\* a write of chunk v at offset k of a file
WriteAt(f, k, v) ==
    [f EXCEPT !.data = [i \in 1..(IF Len(f.data) > k THEN Len(f.data) ELSE k) |->
                            IF i = k THEN v
                            ELSE IF i <= Len(f.data) THEN f.data[i] ELSE 0]]

\* Save returns to goroutine g: the deferred Unlock, and its descriptor is
\* closed
SaveReturns(f, g) ==
    [f EXCEPT !.mu = [st \in DOMAIN f.mu |-> IF f.mu[st] = g THEN 0 ELSE f.mu[st]],
              !.pc[g] = "idle", !.fd[g] = "closed", !.off[g] = 0]

\* goroutine g enters Save(items) of store st: fs.mu.Lock()
SaveLock(g, st, v) ==
    /\ disk.pc[g] = "idle"
    /\ MutexFree(disk, st)
    /\ disk' = [disk EXCEPT !.mu[st] = g, !.on[g] = st, !.items[g] = v,
                        !.pc[g] = "locked"]
    /\ UNCHANGED notStoreVars

\* json.MarshalIndent and os.MkdirAll; either can fail
SavePrepare(g, ok) ==
    /\ disk.pc[g] = "locked"
    /\ disk' = IF ok THEN [disk EXCEPT !.pc[g] = "open"] ELSE SaveReturns(disk, g)
    /\ UNCHANGED notStoreVars

\* os.WriteFile(tempFile, ...) opens filePath + ".tmp" with O_CREATE|O_TRUNC
SaveOpenTemp(g, ok) ==
    /\ disk.pc[g] = "open"
    /\ disk' = IF ok
             THEN [disk EXCEPT !.files.tmp = File(<<>>), !.fd[g] = "tmp",
                             !.off[g] = 0, !.pc[g] = "write"]
             ELSE SaveReturns(disk, g)
    /\ UNCHANGED notStoreVars

\* os.WriteFile writes the next chunk through its descriptor, to whichever
\* name the file it opened has by now; after the last chunk it closes
SaveWriteTemp(g, ok) ==
    /\ disk.pc[g] = "write"
    /\ disk' = IF ~ok THEN SaveReturns(disk, g)
             ELSE LET k == disk.off[g] + 1
                      name == disk.fd[g]
                      written ==
                        IF name = "gone" THEN disk
                        ELSE [disk EXCEPT !.files[name] = WriteAt(@, k, disk.items[g])]
                  IN  IF k = DocLen
                      THEN [written EXCEPT !.off[g] = k, !.fd[g] = "closed",
                                           !.pc[g] = "rename"]
                      ELSE [written EXCEPT !.off[g] = k]
    /\ UNCHANGED notStoreVars

\* os.Rename(tempFile, fs.filePath): the file under the temp name takes the
\* place of the file at the path in one step, and descriptors follow their
\* file; when it fails (or the temp file is gone) os.Remove(tempFile)
SaveRename(g, ok) ==
    /\ disk.pc[g] = "rename"
    /\ disk' = IF ok /\ disk.files.tmp.exists
             THEN [SaveReturns(disk, g) EXCEPT
                     !.files = [path |-> disk.files.tmp, tmp |-> NoFile],
                     !.fd = [h \in DOMAIN disk.fd |->
                                IF h = g THEN "closed"
                                ELSE IF disk.fd[h] = "tmp" THEN "path"
                                ELSE IF disk.fd[h] = "path" THEN "gone"
                                ELSE disk.fd[h]]]
             ELSE [SaveReturns(disk, g) EXCEPT
                     !.files.tmp = NoFile,
                     !.fd = [h \in DOMAIN disk.fd |->
                                IF h = g THEN "closed"
                                ELSE IF disk.fd[h] = "tmp" THEN "gone"
                                ELSE disk.fd[h]]]
    /\ UNCHANGED notStoreVars

\* the process of goroutine g is killed somewhere inside Save
SaveInterrupted(g) ==
    /\ disk.pc[g] # "idle"
    /\ disk' = SaveReturns(disk, g)
    /\ UNCHANGED notStoreVars

\* Load through store st: under fs.mu.RLock(), os.ReadFile(fs.filePath)
Load(st) ==
    /\ disk.mu[st] = 0
    /\ disk' = [disk EXCEPT !.loaded = disk.files.path]
    /\ UNCHANGED notStoreVars

InitStore ==
    /\ call = NoDispatch
    /\ steps = <<>>
    /\ par = NoParallel
    /\ cond = NoConditional
    /\ mu = Unlocked
    /\ sink = NoText
    /\ once = NewAgentMemory
    /\ cli = NoMain
    /\ disk = NewDefaultFileStorage
    /\ ctx = "background"
    /\ lastExec = NoExec
    /\ variant = "none"
    /\ frames = <<>>
    /\ currentToolCall = NilCall
    /\ toolCalls = <<>>
    /\ executed = <<>>
    /\ streamState = "idle"
    /\ mode = "none"
    /\ round = 0
    /\ loopPc = "idle"
    /\ pendingCalls = 0
    /\ messages = <<>>
    /\ roundsStarted = 0
    /\ runErr = "nil"
    /\ roundCalls = <<>>
    /\ lastResult = NoResult
    /\ tools = EmptyMap
    /\ aliases = EmptyMap
    /\ categories = EmptyMap
    /\ tagIndex = EmptyMap
    /\ ret = NoCall
    /\ schema = NoSchema
    /\ params = EmptyMap
    /\ verr = NotValidated
    /\ stdin = <<>>
    /\ closed = FALSE
    /\ answer = "pending"

NextStore ==
    \/ \E g \in 1..MaxSavers, st \in 1..MaxStores, v \in 1..MaxItems : SaveLock(g, st, v)
    \/ \E g \in 1..MaxSavers, ok \in BOOLEAN : SavePrepare(g, ok)
    \/ \E g \in 1..MaxSavers, ok \in BOOLEAN : SaveOpenTemp(g, ok)
    \/ \E g \in 1..MaxSavers, ok \in BOOLEAN : SaveWriteTemp(g, ok)
    \/ \E g \in 1..MaxSavers, ok \in BOOLEAN : SaveRename(g, ok)
    \/ \E g \in 1..MaxSavers : SaveInterrupted(g)
    \/ \E st \in 1..MaxStores : Load(st)

\* C36: during and after every Save of the task store, including a Save that
\* fails or is interrupted at any step and Saves running concurrently, the
\* document at the store's path is always either the complete previous
\* document or a complete new one, and a reader never observes a half-written
\* file.
C36_PathAlwaysComplete ==
    /\ Complete(disk.files.path)
    /\ Complete(disk.loaded)

----------------------------------------------------------------------------
(* The command line: main *)

notMainVars ==
    <<once, disk, ctx, lockVars, textVars, pipeVars, execVars, regVars, valVars,
      gateVars, dispVars, accVars, loopVars>>

\* a command line has at most this many arguments after the program name
MaxArgs == 3

\* the arguments that are tried
ArgPool == {"--auto", "-a", "test", "prompt", "-auto"}

RECURSIVE SeqsUpTo(_, _)
SeqsUpTo(S, n) ==
    IF n = 0 THEN {<<>>}
    ELSE LET shorter == SeqsUpTo(S, n - 1) IN
         shorter \cup {Append(s, x) : s \in {t \in shorter : Len(t) = n - 1}, x \in S}

\* os.Args[1:]
CommandLines == SeqsUpTo(ArgPool, MaxArgs)

\* arg == "--auto" || arg == "-a"
IsAutoFlag(arg) == arg = "--auto" \/ arg = "-a"

\* everything from the flag on is dropped
CutAt(args, i) == SubSeq(args, 1, i - 1)

\* append(args[:i], args[i+1:]...)
RemoveAt(args, i) == SubSeq(args, 1, i - 1) \o SubSeq(args, i + 1, Len(args))

\* the loop of main over the arguments from index i on: it stops at the
\* first flag
RECURSIVE ParseFrom(_, _)
ParseFrom(args, i) ==
    IF i > Len(args) THEN [autoMode |-> FALSE, args |-> args]
    ELSE IF IsAutoFlag(args[i]) THEN [autoMode |-> TRUE, args |-> RemoveAt(args, i)]
    ELSE ParseFrom(args, i + 1)

\* strings.Join(args, " ")
RECURSIVE JoinArgs(_)
JoinArgs(args) ==
    IF args = <<>> THEN <<>>
    ELSE IF Len(args) = 1 THEN <<args[1]>>
    ELSE <<args[1], " ">> \o JoinArgs(Tail(args))

\* main looks for --auto
ParseArgs ==
    /\ cli.pc = "start"
    /\ LET parsed == ParseFrom(cli.osArgs, 1) IN
       cli' = [cli EXCEPT !.autoMode = parsed.autoMode, !.args = parsed.args,
                          !.pc = "parsed"]
    /\ UNCHANGED notMainVars

\* permission.NewAuto() or permission.New()
NewManager ==
    /\ cli.pc = "parsed"
    /\ cli' = [cli EXCEPT !.perm = IF cli.autoMode THEN "Auto" ELSE "Interactive",
                          !.pc = "tools"]
    /\ UNCHANGED notMainVars

\* a tool asks the manager main handed to it; typed is what
\* InteractiveManager.Request makes of the operator's line
ManagerRequest(action, typed) ==
    /\ cli.pc = "tools"
    /\ cli' = [cli EXCEPT !.granted = @ \cup
                  {[action |-> action,
                    allowed |-> IF cli.perm = "Auto" THEN TRUE ELSE typed]}]
    /\ UNCHANGED notMainVars

\* single prompt mode: the arguments that are left are the prompt
RunPrompt ==
    /\ cli.pc = "tools"
    /\ Len(cli.args) > 0
    /\ cli' = [cli EXCEPT !.prompt = JoinArgs(cli.args), !.pc = "prompt"]
    /\ UNCHANGED notMainVars

InitMain ==
    /\ call = NoDispatch
    /\ steps = <<>>
    /\ par = NoParallel
    /\ cond = NoConditional
    /\ mu = Unlocked
    /\ sink = NoText
    /\ once = NewAgentMemory
    /\ cli \in {[NoMain EXCEPT !.pc = "start", !.osArgs = argv] : argv \in CommandLines}
    /\ disk = NewDefaultFileStorage
    /\ ctx = "background"
    /\ lastExec = NoExec
    /\ variant = "none"
    /\ frames = <<>>
    /\ currentToolCall = NilCall
    /\ toolCalls = <<>>
    /\ executed = <<>>
    /\ streamState = "idle"
    /\ mode = "none"
    /\ round = 0
    /\ loopPc = "idle"
    /\ pendingCalls = 0
    /\ messages = <<>>
    /\ roundsStarted = 0
    /\ runErr = "nil"
    /\ roundCalls = <<>>
    /\ lastResult = NoResult
    /\ tools = EmptyMap
    /\ aliases = EmptyMap
    /\ categories = EmptyMap
    /\ tagIndex = EmptyMap
    /\ ret = NoCall
    /\ schema = NoSchema
    /\ params = EmptyMap
    /\ verr = NotValidated
    /\ stdin = <<>>
    /\ closed = FALSE
    /\ answer = "pending"

NextMain ==
    \/ ParseArgs
    \/ NewManager
    \/ \E action \in {"write", "bash"}, typed \in BOOLEAN : ManagerRequest(action, typed)
    \/ RunPrompt

\* the command line of this run holds --auto or -a
HasAutoFlag == \E k \in DOMAIN cli.osArgs : cli.osArgs[k] \in {"--auto", "-a"}

\* the command line without its first --auto or -a
WithoutFirstFlag ==
    IF ~HasAutoFlag THEN cli.osArgs
    ELSE LET k == CHOOSE j \in DOMAIN cli.osArgs :
                    /\ cli.osArgs[j] \in {"--auto", "-a"}
                    /\ \A h \in 1..(j - 1) : cli.osArgs[h] \notin {"--auto", "-a"}
         IN  [j \in 1..(Len(cli.osArgs) - 1) |->
                IF j < k THEN cli.osArgs[j] ELSE cli.osArgs[j + 1]]

\* C37: auto-approval is opt-in: the permission manager handed to the tools
\* is the Auto variant, whose Request returns true for every action, if and
\* only if the command line contains --auto or -a, and otherwise the
\* Interactive variant; parsing removes only the first such flag and keeps
\* all other arguments in their order as the prompt.
C37_AutoApprovalIsOptIn ==
    /\ cli.pc \in {"parsed", "tools", "prompt"} =>
        /\ cli.autoMode <=> HasAutoFlag
        /\ cli.args = WithoutFirstFlag
    /\ cli.pc \in {"tools", "prompt"} =>
        /\ cli.perm = IF HasAutoFlag THEN "Auto" ELSE "Interactive"
        /\ cli.perm = "Auto" => \A g \in cli.granted : g.allowed
    /\ cli.pc = "prompt" =>
        /\ Len(cli.prompt) = 2 * Len(WithoutFirstFlag) - 1
        /\ \A j \in DOMAIN WithoutFirstFlag : cli.prompt[2 * j - 1] = WithoutFirstFlag[j]
        /\ \A j \in 1..(Len(WithoutFirstFlag) - 1) : cli.prompt[2 * j] = " "

\* a prompt was given before two flags: the Auto manager has approved both
\* actions and the second flag is part of the prompt
C37_Witness ==
    /\ cli.osArgs = <<"test", "-a", "--auto">>
    /\ cli.pc = "prompt"
    /\ cli.perm = "Auto"
    /\ cli.prompt = <<"test", " ", "--auto">>
    /\ {g.action : g \in cli.granted} = {"write", "bash"}

----------------------------------------------------------------------------
(* Conditional pipeline: core.ConditionalPipeline *)

\* a conditional pipeline holds at most this many conditional steps
MaxConditions == 2

\* defaultStep == nil
NilStep == [nil |-> TRUE]

\* the predicates over the prior results a caller hands to AddIf
ConditionPool == {"always", "never", "lastSucceeded", "anyFailed"}

\* step.Condition(prevResults); prior results are kept by their Success()
Holds(condition, prevResults) ==
    CASE condition = "always" -> TRUE
      [] condition = "never" -> FALSE
      [] condition = "lastSucceeded" ->
            prevResults # <<>> /\ prevResults[Len(prevResults)]
      [] condition = "anyFailed" ->
            \E i \in DOMAIN prevResults : ~prevResults[i]

\* the prior results a caller hands to Execute
PrevResultsPool == {<<>>, <<TRUE>>, <<FALSE>>, <<FALSE, TRUE>>}

\* the last conditional step whose condition holds, 0 when none does
LastMatch(ss, prevResults) ==
    IF \E k \in DOMAIN ss : Holds(ss[k].condition, prevResults)
    THEN CHOOSE k \in DOMAIN ss :
            /\ Holds(ss[k].condition, prevResults)
            /\ \A j \in DOMAIN ss : Holds(ss[j].condition, prevResults) => j <= k
    ELSE 0

\* the loop over p.steps: the first conditional step whose condition holds,
\* 0 when none does
FirstMatch(ss, prevResults) ==
    IF \E k \in DOMAIN ss : Holds(ss[k].condition, prevResults)
    THEN CHOOSE k \in DOMAIN ss :
            /\ Holds(ss[k].condition, prevResults)
            /\ \A j \in DOMAIN ss : Holds(ss[j].condition, prevResults) => k <= j
    ELSE 0

\* NewSimpleResult("no condition matched and no default step")
NoOpResult == [success |-> TRUE, step |-> 0, tool |-> "none"]

\* NewConditionalPipeline
NewConditionalPipeline ==
    /\ cond' = NoConditional
    /\ call' = NoDispatch
    /\ UNCHANGED <<steps, par, notPipeVars>>

\* ConditionalPipeline.AddIf
AddIf(condition, tool) ==
    /\ call.path # "ConditionalPipeline"
    /\ Len(cond.steps) < MaxConditions
    /\ cond' = [cond EXCEPT !.steps =
                    Append(@, [condition |-> condition, tool |-> tool])]
    /\ UNCHANGED <<call, steps, par, notPipeVars>>

\* ConditionalPipeline.SetDefault
SetDefault(tool) ==
    /\ call.path # "ConditionalPipeline"
    /\ cond' = [cond EXCEPT !.defaultStep = tool]
    /\ UNCHANGED <<call, steps, par, notPipeVars>>

\* the result of running one step of the conditional pipeline: k is its
\* place in p.steps, 0 for the default step
RunConditionalStep(k, tool, granted, ok) ==
    LET r == ToolExecute(tool, granted, ok) IN
    [path |-> "ConditionalPipeline", events |-> r.events, err |-> r.err,
     results |-> IF r.err = "nil"
                 THEN <<[success |-> TRUE, step |-> k, tool |-> Info(tool).name]>>
                 ELSE <<>>,
     attempts |-> <<Attempt(k, Info(tool).name, r.err = "nil")>>,
     errStep |-> k, errTool |-> Info(tool).name, stopOnError |-> TRUE]

\* ConditionalPipeline.Execute
ConditionalExecute(prevResults, granted, ok) ==
    /\ LET k == FirstMatch(cond.steps, prevResults) IN
       call' = IF k # 0
               THEN RunConditionalStep(k, cond.steps[k].tool, granted, ok)
               ELSE IF cond.defaultStep # NilStep
               THEN RunConditionalStep(0, cond.defaultStep, granted, ok)
               ELSE [path |-> "ConditionalPipeline", events |-> <<>>,
                     err |-> "nil", results |-> <<NoOpResult>>,
                     attempts |-> <<>>, errStep |-> 0, errTool |-> "none",
                     stopOnError |-> TRUE]
    /\ cond' = [cond EXCEPT !.prevResults = prevResults]
    /\ UNCHANGED <<steps, par, notPipeVars>>

InitConditional ==
    /\ call = NoDispatch
    /\ steps = <<>>
    /\ par = NoParallel
    /\ cond = NoConditional
    /\ mu = Unlocked
    /\ sink = NoText
    /\ once = NewAgentMemory
    /\ cli = NoMain
    /\ disk = NewDefaultFileStorage
    /\ ctx = "background"
    /\ lastExec = NoExec
    /\ variant = "none"
    /\ frames = <<>>
    /\ currentToolCall = NilCall
    /\ toolCalls = <<>>
    /\ executed = <<>>
    /\ streamState = "idle"
    /\ mode = "none"
    /\ round = 0
    /\ loopPc = "idle"
    /\ pendingCalls = 0
    /\ messages = <<>>
    /\ roundsStarted = 0
    /\ runErr = "nil"
    /\ roundCalls = <<>>
    /\ lastResult = NoResult
    /\ tools = EmptyMap
    /\ aliases = EmptyMap
    /\ categories = EmptyMap
    /\ tagIndex = EmptyMap
    /\ ret = NoCall
    /\ schema = NoSchema
    /\ params = EmptyMap
    /\ verr = NotValidated
    /\ stdin = <<>>
    /\ closed = FALSE
    /\ answer = "pending"

NextConditional ==
    \/ NewConditionalPipeline
    \/ \E condition \in ConditionPool, tool \in StepTools : AddIf(condition, tool)
    \/ \E tool \in StepTools : SetDefault(tool)
    \/ \E prevResults \in PrevResultsPool, granted \in BOOLEAN, ok \in BOOLEAN :
            ConditionalExecute(prevResults, granted, ok)

----------------------------------------------------------------------------
(* Conditional pipeline claims *)

\* the conditional steps whose predicate holds on the prior results of the
\* last Execute
Matching ==
    {k \in DOMAIN cond.steps : Holds(cond.steps[k].condition, cond.prevResults)}

\* C16: a Conditional pipeline executes at most one step per Execute: the
\* step of the first pair, in insertion order, whose predicate holds on the
\* prior results; if none holds, the default step when one is set; if none
\* holds and no default is set, nothing, and it returns a successful no-op
\* result.
C16_ConditionalExecutesFirstMatch ==
    call.path = "ConditionalPipeline" =>
        /\ Len(call.attempts) <= 1
        /\ Matching # {} =>
            /\ Len(call.attempts) = 1
            /\ call.attempts[1].step \in Matching
            /\ \A k \in Matching : call.attempts[1].step <= k
            /\ call.attempts[1].tool =
                    Info(cond.steps[call.attempts[1].step].tool).name
        /\ (Matching = {} /\ cond.defaultStep # NilStep) =>
            /\ Len(call.attempts) = 1
            /\ call.attempts[1].step = 0
            /\ call.attempts[1].tool = Info(cond.defaultStep).name
        /\ (Matching = {} /\ cond.defaultStep = NilStep) =>
            /\ call.attempts = <<>>
            /\ call.events = <<>>
            /\ call.err = "nil"
            /\ call.results = <<NoOpResult>>

\* two pairs whose predicates both hold: the step of the first one ran, the
\* step of the second one did not
C16_Witness ==
    /\ call.path = "ConditionalPipeline"
    /\ Len(cond.steps) = 2
    /\ Matching = {1, 2}
    /\ cond.steps[1].tool # cond.steps[2].tool
    /\ call.attempts = <<Attempt(1, Info(cond.steps[1].tool).name, TRUE)>>

----------------------------------------------------------------------------
(* Stream accumulator: Provider.StreamResponse and
   Provider.StreamResponseWithHistory *)

\* a stream delivers at most this many responses before it ends
MaxFrames == 3

\* one element of delta.ToolCalls: ID, Function.Name, Function.Arguments
\* (arguments are strings, kept as sequences of characters)
ToolCallDelta(id, name, arguments) == [id |-> id, name |-> name, args |-> arguments]

\* the responses a stream can deliver: each is the list delta.ToolCalls
\* (empty for a response with text only or with no choices)
FramePool ==
    { <<>>,
      <<ToolCallDelta("1", "bash", <<"a">>)>>,
      <<ToolCallDelta("1", "bash", <<>>)>>,
      <<ToolCallDelta("2", "read", <<"b">>)>>,
      <<ToolCallDelta("", "", <<"a">>)>>,
      <<ToolCallDelta("", "", <<"b">>)>>,
      <<ToolCallDelta("", "read", <<"b", "a">>)>>,
      <<ToolCallDelta("", "", <<>>)>>,
      <<ToolCallDelta("1", "bash", <<"a">>), ToolCallDelta("", "", <<"b">>)>>,
      <<ToolCallDelta("", "", <<"a">>), ToolCallDelta("2", "read", <<>>)>> }

\* the responses a stream can deliver: delta.Content and delta.ToolCalls
\* (both empty for a response without choices)
Response(content, toolCallDeltas) == [content |-> content, toolCalls |-> toolCallDeltas]

ResponsePool ==
    {Response(<<>>, frame) : frame \in FramePool} \cup
    { Response(a, <<>>),
      Response(a, <<ToolCallDelta("1", "bash", <<"a">>)>>),
      Response(abc, <<ToolCallDelta("", "", <<"b">>)>>) }

\* what onDelta is called with: a text fragment of the stream, or the line
\* StreamResponse prints about a tool call it has executed
TextItem(content) == [kind |-> "text", s |-> content]
ToolLine == [kind |-> "tool", s |-> <<>>]

\* a loop body that drops the text of a response that also has tool calls
OnDeltaUnlessToolCalls(delivered, r) ==
    IF r.content # <<>> /\ r.toolCalls = <<>>
    THEN Append(delivered, TextItem(r.content)) ELSE delivered

\* if delta.Content != "" { onDelta(delta.Content) }
OnDelta(delivered, r) ==
    IF r.content # <<>> THEN Append(delivered, TextItem(r.content)) ELSE delivered

\* the end of stream that leaves the open call unexecuted
DropOpen(done, current) == done

\* if currentToolCall != nil { p.executeToolCall(*currentToolCall) }
FlushOpen(done, current) ==
    IF current # NilCall THEN Append(done, current) ELSE done

\* the openai.ToolCall built when a delta carries an ID
NewToolCall(d) == [id |-> d.id, name |-> d.name, args |-> d.args]

\* Arguments += fragment, with the operands the wrong way round
PrependArguments(c, fragment) == [c EXCEPT !.args = fragment \o @]

\* currentToolCall.Function.Arguments += toolCall.Function.Arguments
AppendArguments(c, fragment) == [c EXCEPT !.args = @ \o fragment]

\* the new call replaces the open one without the open one being executed
OpenWithoutFlush(acc, d) ==
    [acc EXCEPT !.current = NewToolCall(d)]

\* StreamResponse, a delta with an ID: execute the open call, open the new one
OpenAfterFlush(acc, d) ==
    [current |-> NewToolCall(d),
     executed |-> FlushOpen(acc.executed, acc.current)]

\* StreamResponse: the loop body over delta.ToolCalls from element i on
RECURSIVE StreamResponseDeltas(_, _, _)
StreamResponseDeltas(ds, i, acc) ==
    IF i > Len(ds) THEN acc
    ELSE LET d == ds[i] IN
         StreamResponseDeltas(ds, i + 1,
            IF d.id # "" THEN OpenAfterFlush(acc, d)
            ELSE IF acc.current # NilCall
            THEN [acc EXCEPT !.current = AppendArguments(acc.current, d.args)]
            ELSE acc)

\* StreamResponseWithHistory: the loop body over delta.ToolCalls
RECURSIVE WithHistoryDeltas(_, _, _)
WithHistoryDeltas(ds, i, acc) ==
    IF i > Len(ds) THEN acc
    ELSE LET d == ds[i] IN
         WithHistoryDeltas(ds, i + 1,
            IF d.id # ""
            THEN [current |-> NewToolCall(d),
                  toolCalls |-> Append(acc.toolCalls, NewToolCall(d))]
            ELSE IF acc.current # NilCall
            THEN LET c == AppendArguments(acc.current, d.args) IN
                 [current |-> c,
                  toolCalls |-> IF Len(acc.toolCalls) > 0
                                THEN [acc.toolCalls EXCEPT
                                        ![Len(acc.toolCalls)].args = c.args]
                                ELSE acc.toolCalls]
            ELSE acc)

\* StreamResponse: stream.Recv returned a response; the text goes to onDelta
\* first, then a line for every call the tool-call deltas made it execute
StreamResponseRecv(r) ==
    /\ variant = "StreamResponse"
    /\ streamState = "streaming"
    /\ Len(frames) < MaxFrames
    /\ LET acc == StreamResponseDeltas(r.toolCalls, 1,
                    [current |-> currentToolCall, executed |-> executed]) IN
        /\ currentToolCall' = acc.current
        /\ executed' = acc.executed
        /\ sink' = [content |-> Append(sink.content, r.content),
                    delivered |-> OnDelta(sink.delivered, r) \o
                        [i \in 1..(Len(acc.executed) - Len(executed)) |-> ToolLine]]
    /\ frames' = Append(frames, r.toolCalls)
    /\ UNCHANGED <<variant, toolCalls, streamState, notStreamVars>>

\* StreamResponse: stream.Recv returned EOF, the last call is executed
StreamResponseEOF ==
    /\ variant = "StreamResponse"
    /\ streamState = "streaming"
    /\ executed' = FlushOpen(executed, currentToolCall)
    /\ sink' = [sink EXCEPT !.delivered =
                    @ \o [i \in 1..(Len(executed') - Len(executed)) |-> ToolLine]]
    /\ streamState' = "done"
    /\ UNCHANGED <<variant, frames, currentToolCall, toolCalls, notStreamVars>>

\* StreamResponseWithHistory: stream.Recv returned a response
WithHistoryRecv(r) ==
    /\ variant = "StreamResponseWithHistory"
    /\ streamState = "streaming"
    /\ Len(frames) < MaxFrames
    /\ LET acc == WithHistoryDeltas(r.toolCalls, 1,
                    [current |-> currentToolCall, toolCalls |-> toolCalls]) IN
        /\ currentToolCall' = acc.current
        /\ toolCalls' = acc.toolCalls
    /\ sink' = [content |-> Append(sink.content, r.content),
                delivered |-> OnDelta(sink.delivered, r)]
    /\ frames' = Append(frames, r.toolCalls)
    /\ UNCHANGED <<variant, executed, streamState, notStreamVars>>

\* StreamResponseWithHistory: stream.Recv returned EOF, all calls are executed
WithHistoryEOF ==
    /\ variant = "StreamResponseWithHistory"
    /\ streamState = "streaming"
    /\ executed' = toolCalls
    /\ streamState' = "done"
    /\ UNCHANGED <<variant, frames, currentToolCall, toolCalls, notAccVars>>

\* either function: stream.Recv returned another error, the function returns it
StreamError ==
    /\ streamState = "streaming"
    /\ streamState' = "error"
    /\ UNCHANGED <<variant, frames, currentToolCall, toolCalls, executed, notAccVars>>

InitAccumulator ==
    /\ variant \in {"StreamResponse", "StreamResponseWithHistory"}
    /\ frames = <<>>
    /\ currentToolCall = NilCall
    /\ toolCalls = <<>>
    /\ executed = <<>>
    /\ streamState = "streaming"
    /\ mode = "none"
    /\ round = 0
    /\ loopPc = "idle"
    /\ pendingCalls = 0
    /\ messages = <<>>
    /\ roundsStarted = 0
    /\ runErr = "nil"
    /\ roundCalls = <<>>
    /\ lastResult = NoResult
    /\ call = NoDispatch
    /\ steps = <<>>
    /\ par = NoParallel
    /\ cond = NoConditional
    /\ mu = Unlocked
    /\ sink = NoText
    /\ once = NewAgentMemory
    /\ cli = NoMain
    /\ disk = NewDefaultFileStorage
    /\ ctx = "background"
    /\ lastExec = NoExec
    /\ tools = EmptyMap
    /\ aliases = EmptyMap
    /\ categories = EmptyMap
    /\ tagIndex = EmptyMap
    /\ ret = NoCall
    /\ schema = NoSchema
    /\ params = EmptyMap
    /\ verr = NotValidated
    /\ stdin = <<>>
    /\ closed = FALSE
    /\ answer = "pending"

NextAccumulator ==
    \/ \E r \in ResponsePool : StreamResponseRecv(r)
    \/ StreamResponseEOF
    \/ \E r \in ResponsePool : WithHistoryRecv(r)
    \/ WithHistoryEOF
    \/ StreamError

----------------------------------------------------------------------------
(* Accumulator claims *)

\* all elements of delta.ToolCalls received so far, in order of arrival
RECURSIVE Flatten(_)
Flatten(fs) == IF fs = <<>> THEN <<>> ELSE Head(fs) \o Flatten(Tail(fs))

Deltas == Flatten(frames)

\* the fragments of deltas i..j, concatenated in order
RECURSIVE ConcatArguments(_, _, _)
ConcatArguments(ds, i, j) ==
    IF i > j THEN <<>> ELSE ds[i].args \o ConcatArguments(ds, i + 1, j)

\* one call split into fragments: the first delta has an id, the others none
OneCallInFragments ==
    /\ Len(Deltas) >= 1
    /\ Deltas[1].id # ""
    /\ \A i \in 2..Len(Deltas) : Deltas[i].id = ""

\* C8: a call whose first fragment comes with a non-empty id and whose later
\* fragments come with an empty id, followed by end of stream, yields exactly
\* one completed call with the id and name of the first delta and with the
\* in-order concatenation of all fragments as its arguments.
C8_FragmentsConcatenate ==
    (streamState = "done" /\ OneCallInFragments) =>
        executed = << [id |-> Deltas[1].id, name |-> Deltas[1].name,
                       args |-> ConcatArguments(Deltas, 1, Len(Deltas))] >>

\* a call arrived in three fragments, two of them non-empty and different
C8_Witness ==
    /\ streamState = "done"
    /\ OneCallInFragments
    /\ Len(Deltas) >= 3
    /\ \E i, j \in 1..Len(Deltas) :
            i < j /\ Deltas[i].args = <<"a">> /\ Deltas[j].args = <<"b">>
    /\ Len(executed) = 1

\* the calls that are complete: StreamResponse executes a call as soon as it
\* is complete; StreamResponseWithHistory collects it in toolCalls, where
\* the last entry is the open call while the stream runs
CompletedCalls ==
    IF variant = "StreamResponse" \/ streamState = "done" THEN executed
    ELSE IF toolCalls = <<>> THEN <<>>
    ELSE SubSeq(toolCalls, 1, Len(toolCalls) - 1)

\* positions of the deltas that carry an id
Opens == {i \in 1..Len(Deltas) : Deltas[i].id # ""}

\* the position of the next delta with an id after i, or one past the end
NextOpen(i) ==
    IF \E j \in Opens : j > i
    THEN CHOOSE j \in Opens : j > i /\ \A k \in Opens : k > i => j <= k
    ELSE Len(Deltas) + 1

\* the k-th delta with an id
Open(k) == CHOOSE i \in Opens : Cardinality({j \in Opens : j <= i}) = k

\* a response made of one delta with an id arrives while a call is open
OpensWhileOpen ==
    /\ Len(frames') = Len(frames) + 1
    /\ Len(frames'[Len(frames')]) = 1
    /\ frames'[Len(frames')][1].id # ""
    /\ currentToolCall # NilCall

\* C9, the step: the open call is completed, with the arguments it has then,
\* before the new call starts with the fragment of its own delta.
C9_Step ==
    OpensWhileOpen =>
        /\ CompletedCalls' = Append(CompletedCalls, currentToolCall)
        /\ currentToolCall' = NewToolCall(frames'[Len(frames')][1])

\* C9, the calls: a completed call never changes again, and at end of stream
\* there is one completed call per delta with an id, each holding the
\* fragments from its own delta up to the next delta with an id.
C9_Calls ==
    /\ streamState = "streaming" => Len(CompletedCalls) = Cardinality(Opens) - (IF Opens = {} THEN 0 ELSE 1)
    /\ streamState = "done" => Len(executed) = Cardinality(Opens)
    /\ \A k \in 1..Len(CompletedCalls) :
        streamState # "error" =>
            CompletedCalls[k] =
                [id |-> Deltas[Open(k)].id, name |-> Deltas[Open(k)].name,
                 args |-> ConcatArguments(Deltas, Open(k), NextOpen(Open(k)) - 1)]

\* C9: when a delta with a non-empty id arrives while a call is open, the
\* open call is emitted as complete before the new call starts accumulating;
\* two deltas with ids yield two completed calls, and no fragment arriving
\* after the second id is added to the first call.
C9_FlushBeforeOpen == [][C9_Step]_vars /\ []C9_Calls

\* two calls, a fragment after the second id, both executed at end of stream
C9_Witness ==
    /\ streamState = "done"
    /\ Cardinality(Opens) = 2
    /\ Deltas[Len(Deltas)].id = "" /\ Deltas[Len(Deltas)].args # <<>>
    /\ Len(executed) = 2
    /\ executed[1].id # executed[2].id

\* the deltas that carried a non-empty id, in arrival order
Opened == SelectSeq(Deltas, LAMBDA d : d.id # "")

\* C27: for every finite stream that ends normally, the sequence of completed
\* calls equals the sequence of deltas that carried a non-empty id, in arrival
\* order, each emitted exactly once: no opened call is lost (the one still
\* open at end of stream is flushed) and none is emitted twice.
C27_CompletedCallsAreOpenedCalls ==
    /\ streamState = "done" => Len(executed) = Len(Opened)
    /\ streamState # "error" =>
          /\ Len(CompletedCalls) <= Len(Opened)
          /\ \A k \in 1..Len(CompletedCalls) :
                /\ CompletedCalls[k].id = Opened[k].id
                /\ CompletedCalls[k].name = Opened[k].name

\* three calls were opened, one of them in a response that began with a
\* fragment of the call before it, and the stream has ended with the third
\* still open
C27_Witness ==
    /\ streamState = "done"
    /\ Len(Opened) = 3
    /\ \E i \in DOMAIN frames : Len(frames[i]) = 2
    /\ Len(executed) = 3
    /\ executed[3].id = Opened[3].id

\* the non-empty text fragments of the responses received, in order
Fragments == SelectSeq(sink.content, LAMBDA c : c # <<>>)

\* the text fragments among what the sink received, in order
TextDelivered ==
    LET texts == SelectSeq(sink.delivered, LAMBDA x : x.kind = "text") IN
    [i \in 1..Len(texts) |-> texts[i].s]

\* the lines about executed tool calls among what the sink received
ToolLinesDelivered == SelectSeq(sink.delivered, LAMBDA x : x.kind = "tool")

\* C28 as stated: every non-empty text fragment of a frame is forwarded to the
\* text sink when its frame is processed, whatever the tool-call state, and
\* the sequence of fragments the sink receives is exactly the sequence of
\* text fragments of the stream, in order.
C28_SinkReceivesExactlyTheText ==
    sink.delivered = [i \in 1..Len(Fragments) |-> TextItem(Fragments[i])]

\* C28: text and tool-call deltas are independent channels: every non-empty
\* text fragment of a frame is forwarded to the text sink when its frame is
\* processed, whether or not a tool call is open and whether or not the frame
\* carries tool-call deltas, and the text fragments the sink receives are
\* exactly the text fragments of the stream, in order. StreamResponseWithHistory
\* sends the sink nothing else; StreamResponse also sends it one line per
\* tool call it executes, after the text of the frame that completed the call.
C28_TextForwardedInOrder ==
    /\ TextDelivered = Fragments
    /\ variant = "StreamResponseWithHistory" => ToolLinesDelivered = <<>>
    /\ variant = "StreamResponse" => Len(ToolLinesDelivered) = Len(executed)

\* two different fragments were forwarded in order, the second from a frame
\* that also carried a tool-call delta and arrived while a call was open
C28_Witness ==
    /\ Len(frames) = 3
    /\ frames[1] # <<>> /\ frames[1][1].id # ""
    /\ sink.content[2] = a
    /\ frames[3] # <<>> /\ sink.content[3] = abc
    /\ TextDelivered = <<a, abc>>

\* C29: within one round no two completed tool calls carry the same id: once
\* a call with some id has been flushed, no later completed call of that
\* round has that id, whatever sequence of deltas the stream delivers.
C29_CompletedIdsDistinct ==
    \A i, j \in DOMAIN CompletedCalls :
        i # j => CompletedCalls[i].id # CompletedCalls[j].id

----------------------------------------------------------------------------
(* Agent loop: Agent.RunOnce and Agent.RunInteractive *)

\* a round's response with several tool calls carries this many
MaxCalls == 2

\* maxRounds := 10 in RunOnce
RunOnceMaxRounds == 10

\* maxRounds := 5 in RunInteractive
RunInteractiveMaxRounds == 5

maxRounds == IF mode = "RunOnce" THEN RunOnceMaxRounds ELSE RunInteractiveMaxRounds

\* a loop that also runs when round has reached maxRounds
LoopConditionInclusive(r, limit) == r <= limit

\* the loop condition: round < maxRounds
LoopCondition(r, limit) == r < limit

\* what StreamResponseWithTools can do in one round: fail, before or after
\* the callback has collected tool calls, or deliver text and no tool call,
\* one tool call, or several
StreamOutcomes ==
    {[err |-> TRUE, calls |-> k] : k \in {0, MaxCalls}}
        \cup {[err |-> FALSE, calls |-> k] : k \in {0, 1, MaxCalls}}

\* a loop that appends the assistant message and runs the collected calls
\* before it looks at the error of the stream
StreamRoundErrorLast(outcome) ==
    /\ loopPc = "top"
    /\ LoopCondition(round, maxRounds)
    /\ roundsStarted' = roundsStarted + 1
    /\ messages' = Append(messages, "assistant")
    /\ roundCalls' = Append(roundCalls, outcome)
    /\ runErr' = IF outcome.err THEN "error" ELSE runErr
    /\ IF outcome.calls = 0
       THEN loopPc' = "returned" /\ pendingCalls' = 0
       ELSE loopPc' = "tools" /\ pendingCalls' = outcome.calls
    /\ UNCHANGED <<mode, round, lastResult, notLoopVars>>

\* a loop that goes on after a round without tool calls
StreamRoundWithoutBreak(outcome) ==
    /\ loopPc = "top"
    /\ LoopCondition(round, maxRounds)
    /\ roundsStarted' = roundsStarted + 1
    /\ roundCalls' = Append(roundCalls, outcome)
    /\ IF outcome.err
       THEN /\ loopPc' = "returned"
            /\ runErr' = "error"
            /\ UNCHANGED <<messages, pendingCalls, round>>
       ELSE /\ messages' = Append(messages, "assistant")
            /\ runErr' = runErr
            /\ pendingCalls' = outcome.calls
            /\ round' = IF outcome.calls = 0 THEN round + 1 ELSE round
            /\ loopPc' = IF outcome.calls = 0 THEN "top" ELSE "tools"
    /\ UNCHANGED <<mode, lastResult, notLoopVars>>

\* the loop body up to the tool calls: the stream is read, the assistant
\* message is appended, and without tool calls the loop is left
StreamRound(outcome) ==
    /\ loopPc = "top"
    /\ LoopCondition(round, maxRounds)
    /\ roundsStarted' = roundsStarted + 1
    /\ IF outcome.err
       THEN /\ loopPc' = "returned"
            /\ runErr' = "error"
            /\ roundCalls' = Append(roundCalls, outcome)
            /\ UNCHANGED <<messages, pendingCalls>>
       ELSE /\ messages' = Append(messages, "assistant")
            /\ runErr' = runErr
            /\ roundCalls' = Append(roundCalls, outcome)
            /\ IF outcome.calls = 0
               THEN loopPc' = "returned" /\ pendingCalls' = 0
               ELSE loopPc' = "tools" /\ pendingCalls' = outcome.calls
    /\ UNCHANGED <<mode, round, lastResult, notLoopVars>>

\* the errors ExecuteToolCall can return: from the lookup of the tool, from
\* the decoding of the arguments, or from the tool's own Execute
CallErrors ==
    {"tool not found", "failed to parse tool arguments", "permission denied",
     "execution failed"}

\* the message kinds; a tool result is a message of role user whose content
\* is "Tool [name] result:" and the result
Role(m) == IF m = "tool result" THEN "user" ELSE m

\* result = fmt.Sprintf("Error executing tool: %v", err) when err != nil
ResultText(err) == IF err = "nil" THEN "result" ELSE "Error executing tool"

\* a loop over toolCalls that returns the error of a failed call
ExecuteToolCallAborting(err) ==
    /\ loopPc = "tools"
    /\ pendingCalls > 0
    /\ lastResult' = [err |-> err, content |-> ResultText(err)]
    /\ IF err # "nil"
       THEN /\ loopPc' = "returned"
            /\ runErr' = "error"
            /\ UNCHANGED <<messages, pendingCalls, round>>
       ELSE /\ messages' = Append(messages, "tool result")
            /\ pendingCalls' = pendingCalls - 1
            /\ runErr' = runErr
            /\ IF pendingCalls = 1
               THEN round' = round + 1 /\ loopPc' = "top"
               ELSE UNCHANGED <<round, loopPc>>
    /\ UNCHANGED <<mode, roundsStarted, roundCalls, notLoopVars>>

\* the toolCalls slice the onToolCall callback has filled in a round with k
\* calls: the calls in the order the stream completed them
RoundToolCalls(k) ==
    [i \in 1..k |-> [id |-> i, name |-> IF i % 2 = 1 THEN "bash" ELSE "read"]]

\* a loop that takes the calls from the end of the slice
LastToolCallFirst(calls, pending) == calls[pending]

\* for _, toolCall := range toolCalls: the call of the current iteration
NextToolCall(calls, pending) == calls[Len(calls) - pending + 1]

\* what one iteration did: the call it handed to ExecuteToolCall, the round,
\* and the position of the message "Tool [name] result:" it appended
Executed(c, r, at) == [round |-> r, id |-> c.id, name |-> c.name, message |-> at]

\* one iteration of the loop over toolCalls: the call is executed, with or
\* without an error, and its result or the error text appended as a user
\* message; after the last call the round ends and round++ runs
ExecuteToolCall(err) ==
    /\ loopPc = "tools"
    /\ pendingCalls > 0
    /\ messages' = Append(messages, "tool result")
    /\ executed' = Append(executed,
            Executed(NextToolCall(RoundToolCalls(roundCalls[Len(roundCalls)].calls),
                                  pendingCalls),
                     round, Len(messages) + 1))
    /\ lastResult' = [err |-> err, content |-> ResultText(err)]
    /\ pendingCalls' = pendingCalls - 1
    /\ IF pendingCalls = 1
       THEN round' = round + 1 /\ loopPc' = "top"
       ELSE UNCHANGED <<round, loopPc>>
    /\ UNCHANGED <<mode, roundsStarted, runErr, roundCalls, notLoopLogVars>>

\* the loop condition fails: the function returns nil
ExitLoop ==
    /\ loopPc = "top"
    /\ ~LoopCondition(round, maxRounds)
    /\ loopPc' = "returned"
    /\ UNCHANGED <<mode, round, pendingCalls, messages, roundsStarted, runErr,
                   roundCalls, lastResult, notLoopVars>>

\* the state on entry to the loop: the system message and the prompt
InitLoop ==
    /\ mode \in {"RunOnce", "RunInteractive"}
    /\ round = 0
    /\ loopPc = "top"
    /\ pendingCalls = 0
    /\ messages = <<"system", "user">>
    /\ roundsStarted = 0
    /\ runErr = "nil"
    /\ roundCalls = <<>>
    /\ lastResult = NoResult
    /\ variant = "none"
    /\ frames = <<>>
    /\ currentToolCall = NilCall
    /\ toolCalls = <<>>
    /\ executed = <<>>
    /\ streamState = "idle"
    /\ call = NoDispatch
    /\ steps = <<>>
    /\ par = NoParallel
    /\ cond = NoConditional
    /\ mu = Unlocked
    /\ sink = NoText
    /\ once = NewAgentMemory
    /\ cli = NoMain
    /\ disk = NewDefaultFileStorage
    /\ ctx = "background"
    /\ lastExec = NoExec
    /\ tools = EmptyMap
    /\ aliases = EmptyMap
    /\ categories = EmptyMap
    /\ tagIndex = EmptyMap
    /\ ret = NoCall
    /\ schema = NoSchema
    /\ params = EmptyMap
    /\ verr = NotValidated
    /\ stdin = <<>>
    /\ closed = FALSE
    /\ answer = "pending"

NextLoop ==
    \/ \E outcome \in StreamOutcomes : StreamRound(outcome)
    \/ \E err \in {"nil"} \cup CallErrors : ExecuteToolCall(err)
    \/ ExitLoop

----------------------------------------------------------------------------
(* Loop claims *)

\* the loop never enters its body more often than the round limit
RoundsWithinLimit == roundsStarted <= maxRounds

\* the function has returned
Returned == loopPc = "returned"

\* C10: whatever the completion stream does, also when every round produces a
\* tool call, the loop starts at most the round limit of rounds (10 in
\* RunOnce, 5 in RunInteractive), never round limit+1, and then returns.
C10_RoundsBounded == []RoundsWithinLimit /\ <>Returned

\* RunOnce ran into the limit: every one of its 10 rounds produced tool calls
C10_Witness ==
    /\ mode = "RunOnce"
    /\ Returned
    /\ roundsStarted = RunOnceMaxRounds
    /\ round = RunOnceMaxRounds
    /\ runErr = "nil"

\* the loop ended because round reached maxRounds: every round produced tool calls
LimitReached == Returned /\ runErr = "nil" /\ round = maxRounds

\* the loop ended by the break after a round without tool calls
Done == Returned /\ runErr = "nil" /\ round < maxRounds

\* C11: when the loop ends because the round limit was reached while the last
\* round still produced tool calls, the caller receives a RoundLimitExceeded
\* condition that differs from what normal completion returns (nil).
C11_RoundLimitReported ==
    (Returned /\ round = maxRounds /\ roundCalls[Len(roundCalls)].calls > 0) =>
        runErr # "nil"

Count(ms, kind) == Cardinality({i \in DOMAIN ms : ms[i] = kind})

\* this step read a stream that ended with zero tool calls
ZeroCallRound ==
    /\ Len(roundCalls') = Len(roundCalls) + 1
    /\ ~roundCalls'[Len(roundCalls')].err
    /\ roundCalls'[Len(roundCalls')].calls = 0

\* C12, the step: a round with zero tool calls appends its assistant message
\* and returns; after the return nothing is executed, appended or requested.
C12_Step ==
    /\ ZeroCallRound =>
            /\ messages' = Append(messages, "assistant")
            /\ loopPc' = "returned"
            /\ pendingCalls' = 0
    /\ Returned => UNCHANGED <<messages, roundsStarted, roundCalls, lastResult>>

\* one tool call in round 1, none in round 2
OneCallThenNone ==
    /\ Len(roundCalls) >= 2
    /\ roundCalls[1] = [err |-> FALSE, calls |-> 1]
    /\ roundCalls[2] = [err |-> FALSE, calls |-> 0]

\* C12, the run: one tool call in round 1 and none in round 2 ends after
\* exactly two rounds, with two assistant messages and one tool result.
C12_Run ==
    OneCallThenNone =>
        /\ Returned
        /\ roundsStarted = 2
        /\ Count(messages, "assistant") = 2
        /\ Count(messages, "tool result") = 1

\* C12: a round whose stream ends with zero tool calls is the last round: its
\* assistant message is appended, no tool is executed and no further request
\* is sent; a run with one tool call in round 1 and none in round 2 ends
\* after exactly two rounds with exactly two assistant messages and exactly
\* one tool-result message appended.
C12_ZeroCallsEndTheRun == [][C12_Step]_vars /\ []C12_Run

\* the run of the example has returned
C12_Witness ==
    /\ OneCallThenNone
    /\ Returned
    /\ runErr = "nil"
    /\ messages = <<"system", "user", "assistant", "tool result", "assistant">>

\* this step executed a tool call that failed
FailedCall ==
    /\ loopPc = "tools"
    /\ loopPc' # loopPc \/ pendingCalls' # pendingCalls \/ messages' # messages
    /\ lastResult'.err \in CallErrors

\* C13: a failure of a single tool call (unknown tool, undecodable
\* arguments, permission denied, or an error of the tool) never aborts the
\* loop: the error text is appended as that call's result message, the
\* remaining calls of the round are still to be processed, and after the
\* last call the loop proceeds to the next round.
C13_CallFailureDoesNotAbort ==
    [][ FailedCall =>
            /\ messages' = Append(messages, "tool result")
            /\ lastResult'.content = "Error executing tool"
            /\ runErr' = "nil"
            /\ pendingCalls' = pendingCalls - 1
            /\ IF pendingCalls > 1
               THEN loopPc' = "tools" /\ round' = round
               ELSE loopPc' = "top" /\ round' = round + 1 ]_vars

\* the last call of a round of two failed on an unknown tool: its error text
\* is in the conversation and the loop stands at the top of the next round
C13_Witness ==
    /\ roundCalls = <<[err |-> FALSE, calls |-> 2]>>
    /\ messages = <<"system", "user", "assistant", "tool result", "tool result">>
    /\ lastResult = [err |-> "tool not found", content |-> "Error executing tool"]
    /\ loopPc = "top"
    /\ round = 1

\* the iterations a run with the rounds rc has made, from round i on: base is
\* the length of the conversation before round i, open the number of calls
\* of the last round that are still to be executed
RECURSIVE ExpectedLog(_, _, _, _)
ExpectedLog(rc, i, base, open) ==
    IF i > Len(rc) \/ rc[i].err THEN <<>>
    ELSE LET calls == RoundToolCalls(rc[i].calls)
             done == IF i = Len(rc) THEN Len(calls) - open ELSE Len(calls)
         IN [j \in 1..done |-> Executed(calls[j], i - 1, base + 1 + j)]
                \o ExpectedLog(rc, i + 1, base + 1 + Len(calls), open)

\* C30: within a round the completed tool calls are executed one at a time in
\* the order the accumulator emitted them, each exactly once, and for each
\* call exactly one result message tagged with the tool name is appended
\* right after its execution and before the next call starts; all of a
\* round's result messages are appended before the next round's request is
\* sent.
C30_CallsExecutedInOrder ==
    /\ executed = ExpectedLog(roundCalls, 1, 2, pendingCalls)
    /\ \A n \in DOMAIN executed : messages[executed[n].message] = "tool result"
    /\ Count(messages, "tool result") = Len(executed)
    /\ loopPc = "top" => pendingCalls = 0

\* two rounds of two calls: four executions, the names alternating, and the
\* third round not yet requested
C30_Witness ==
    /\ Len(roundCalls) = 2
    /\ Len(executed) = 4
    /\ executed[1].name = "bash" /\ executed[2].name = "read"
    /\ executed[3].id = 1 /\ executed[4].id = 2
    /\ executed[3].round = 1
    /\ messages[executed[2].message + 1] = "assistant"
    /\ loopPc = "top"

\* this step read a stream that failed
StreamFailed ==
    /\ Len(roundCalls') = Len(roundCalls) + 1
    /\ roundCalls'[Len(roundCalls')].err

\* the run has returned the error of a failed stream
FailedRun == Returned /\ runErr = "error"

\* C31: if the completion stream fails during a round, the loop returns an
\* error to its caller at once: no tool call collected in that round is
\* executed, no assistant message is appended for that round, no further
\* round starts, and every message appended before the failure is still in
\* the conversation.
C31_StreamFailureAbortsRound ==
    /\ [][StreamFailed =>
            /\ loopPc' = "returned"
            /\ runErr' = "error"
            /\ messages' = messages
            /\ executed' = executed]_vars
    /\ [][FailedRun => UNCHANGED <<messages, executed, roundsStarted, roundCalls>>]_vars
    /\ [](runErr = "error" => Returned /\ roundCalls[Len(roundCalls)].err)

\* the stream of the second round failed after its callback had collected
\* calls: the first round's messages are there, the second round's calls
\* were not executed
C31_Witness ==
    /\ FailedRun
    /\ roundCalls = <<[err |-> FALSE, calls |-> 1], [err |-> TRUE, calls |-> MaxCalls]>>
    /\ messages = <<"system", "user", "assistant", "tool result">>
    /\ Len(executed) = 1

----------------------------------------------------------------------------
(* The loop under a context that can be cancelled *)

notCtxVars ==
    <<once, cli, disk, lockVars, textVars, pipeVars, execVars, regVars, valVars, gateVars, dispVars,
      accVars, loopVars>>

\* the caller cancels the context it handed to RunOnce or RunInteractive
CancelLoopContext ==
    /\ ctx = "live"
    /\ loopPc # "returned"
    /\ ctx' = "cancelled"
    /\ UNCHANGED notCtxVars

\* StreamResponseWithTools(ctx, ...): with a cancelled context the request
\* fails; the loop body up to the tool calls is the same
StreamRoundWithContext(outcome) ==
    /\ ctx = "cancelled" => outcome.err
    /\ StreamRound(outcome)

\* the state on entry to the loop, the context not cancelled
InitCancel ==
    /\ mode \in {"RunOnce", "RunInteractive"}
    /\ round = 0
    /\ loopPc = "top"
    /\ pendingCalls = 0
    /\ messages = <<"system", "user">>
    /\ roundsStarted = 0
    /\ runErr = "nil"
    /\ roundCalls = <<>>
    /\ lastResult = NoResult
    /\ variant = "none"
    /\ frames = <<>>
    /\ currentToolCall = NilCall
    /\ toolCalls = <<>>
    /\ executed = <<>>
    /\ streamState = "idle"
    /\ call = NoDispatch
    /\ steps = <<>>
    /\ par = NoParallel
    /\ cond = NoConditional
    /\ mu = Unlocked
    /\ sink = NoText
    /\ once = NewAgentMemory
    /\ cli = NoMain
    /\ disk = NewDefaultFileStorage
    /\ ctx = "live"
    /\ lastExec = NoExec
    /\ tools = EmptyMap
    /\ aliases = EmptyMap
    /\ categories = EmptyMap
    /\ tagIndex = EmptyMap
    /\ ret = NoCall
    /\ schema = NoSchema
    /\ params = EmptyMap
    /\ verr = NotValidated
    /\ stdin = <<>>
    /\ closed = FALSE
    /\ answer = "pending"

NextCancel ==
    \/ CancelLoopContext
    \/ \E outcome \in StreamOutcomes : StreamRoundWithContext(outcome)
    \/ \E err \in {"nil"} \cup CallErrors : ExecuteToolCall(err)
    \/ ExitLoop

\* C32: once the governing context is cancelled the loop begins no further
\* tool execution: calls of the current round that have not started are not
\* executed, and a call whose arguments were not fully flushed when the
\* cancellation hit is never executed.
C32_NoExecutionAfterCancel ==
    [][ctx = "cancelled" => executed' = executed]_vars

----------------------------------------------------------------------------
(* Agent conversation: New, RunInteractive, ClearConversation; messages is
   a.conversation *)

\* RunInteractive is entered only while the conversation is shorter than this
MaxConversation == 4

\* no call of the agent is running
AgentIdle == loopPc \in {"idle", "returned", "truncated", "recreated", "emptied"}

\* a ClearConversation that only truncates
TruncateOnly(conversation) ==
    [pc |-> "truncated",
     conversation |-> IF conversation = <<>> THEN <<>> ELSE <<conversation[1]>>]

\* ClearConversation: the branch taken and the conversation it leaves
Cleared(conversation) ==
    IF Len(conversation) > 0 /\ Role(conversation[1]) = "system"
    THEN [pc |-> "truncated", conversation |-> SubSeq(conversation, 1, 1)]
    ELSE [pc |-> "recreated", conversation |-> <<"system">>]

\* New
New ==
    /\ AgentIdle
    /\ loopPc' = "idle"
    /\ messages' = <<"system">>
    /\ mode' = "none"
    /\ round' = 0
    /\ pendingCalls' = 0
    /\ roundsStarted' = 0
    /\ runErr' = "nil"
    /\ roundCalls' = <<>>
    /\ lastResult' = NoResult
    /\ executed' = <<>>
    /\ UNCHANGED notLoopLogVars

\* a prompt that takes the place of the last message
ReplaceLastMessage(conversation, m) ==
    [conversation EXCEPT ![Len(conversation)] = m]

\* a.conversation = append(a.conversation, userMsg)
AppendMessage(conversation, m) == Append(conversation, m)

\* RunInteractive up to the loop: the prompt is appended to a.conversation
RunInteractive ==
    /\ AgentIdle
    /\ loopPc # "emptied"
    /\ Len(messages) < MaxConversation
    /\ messages' = AppendMessage(messages, "user")
    /\ mode' = "RunInteractive"
    /\ round' = 0
    /\ loopPc' = "top"
    /\ pendingCalls' = 0
    /\ roundsStarted' = 0
    /\ runErr' = "nil"
    /\ roundCalls' = <<>>
    /\ lastResult' = NoResult
    /\ executed' = <<>>
    /\ UNCHANGED notLoopLogVars

\* Agent.ClearConversation
ClearConversation ==
    /\ AgentIdle
    /\ loopPc' = Cleared(messages).pc
    /\ messages' = Cleared(messages).conversation
    /\ UNCHANGED <<mode, round, pendingCalls, roundsStarted, runErr,
                   roundCalls, lastResult, notLoopVars>>

\* agent.conversation = []openai.ChatCompletionMessage{}, as
\* TestAgent_ClearConversation_NoSystemMessage does before ClearConversation
EmptyConversation ==
    /\ AgentIdle
    /\ loopPc # "emptied"
    /\ loopPc' = "emptied"
    /\ messages' = <<>>
    /\ UNCHANGED <<mode, round, pendingCalls, roundsStarted, runErr,
                   roundCalls, lastResult, notLoopVars>>

\* the state after New
InitAgent ==
    /\ mode = "none"
    /\ round = 0
    /\ loopPc = "idle"
    /\ pendingCalls = 0
    /\ messages = <<"system">>
    /\ roundsStarted = 0
    /\ runErr = "nil"
    /\ roundCalls = <<>>
    /\ lastResult = NoResult
    /\ variant = "none"
    /\ frames = <<>>
    /\ currentToolCall = NilCall
    /\ toolCalls = <<>>
    /\ executed = <<>>
    /\ streamState = "idle"
    /\ call = NoDispatch
    /\ steps = <<>>
    /\ par = NoParallel
    /\ cond = NoConditional
    /\ mu = Unlocked
    /\ sink = NoText
    /\ once = NewAgentMemory
    /\ cli = NoMain
    /\ disk = NewDefaultFileStorage
    /\ ctx = "background"
    /\ lastExec = NoExec
    /\ tools = EmptyMap
    /\ aliases = EmptyMap
    /\ categories = EmptyMap
    /\ tagIndex = EmptyMap
    /\ ret = NoCall
    /\ schema = NoSchema
    /\ params = EmptyMap
    /\ verr = NotValidated
    /\ stdin = <<>>
    /\ closed = FALSE
    /\ answer = "pending"

NextAgent ==
    \/ New
    \/ RunInteractive
    \/ \E outcome \in StreamOutcomes : StreamRound(outcome)
    \/ \E err \in {"nil"} \cup CallErrors : ExecuteToolCall(err)
    \/ ExitLoop
    \/ ClearConversation
    \/ EmptyConversation

----------------------------------------------------------------------------
(* Agent.RunOnce and the slices it works on *)

notOnceVars ==
    <<cli, disk, ctx, lockVars, textVars, pipeVars, execVars, regVars, valVars,
      gateVars, dispVars, accVars, loopVars>>

\* the zero value of a cell that was allocated and not written
ZeroMessage == "zero"

\* a new backing array of the given capacity that starts with the cells given
NewArray(cells, capacity) ==
    [i \in 1..capacity |-> IF i <= Len(cells) THEN cells[i] ELSE ZeroMessage]

\* the capacities append can give a slice that has to grow to hold needed
\* cells: twice the old capacity, or more where the allocator rounds up
GrownCaps(capacity, needed) ==
    LET double == IF 2 * capacity < needed THEN needed ELSE 2 * capacity
    IN  {double, double + 1}

\* a.conversation: the cells of its array within its length
Conversation(o) == SubSeq(o.array, 1, o.len)

\* messages: the cells of the array it points into within its length
Messages(o) == SubSeq(IF o.shared THEN o.array ELSE o.local, 1, o.llen)

\* messages = append(messages, msg) on a slice that has room: the cell behind
\* its length is written, in the array of a.conversation when that is shared
AppendInPlace(o, msg) ==
    IF o.shared
    THEN [o EXCEPT !.array[o.llen + 1] = msg, !.llen = o.llen + 1]
    ELSE [o EXCEPT !.local[o.llen + 1] = msg, !.llen = o.llen + 1]

\* messages = append(messages, msg) on a full slice: a new array of capacity
\* newcap with a copy of the cells
AppendGrown(o, msg, newcap) ==
    [o EXCEPT !.local = NewArray(Append(Messages(o), msg), newcap),
              !.shared = FALSE, !.llen = o.llen + 1]

\* messages has room for one more cell
HasRoom(o) == o.llen < Len(IF o.shared THEN o.array ELSE o.local)

\* append(messages, msg)
AppendLocal(o, msg, newcap) ==
    IF HasRoom(o) THEN AppendInPlace(o, msg) ELSE AppendGrown(o, msg, newcap)

\* the capacities append(messages, msg) can choose
LocalCaps(o) ==
    IF HasRoom(o) THEN {0}
    ELSE GrownCaps(Len(IF o.shared THEN o.array ELSE o.local), o.llen + 1)

\* a RunOnce that stores the list it works on, as RunInteractive does
StoresMessages(o, length) == length

\* RunOnce has no assignment to a.conversation: its length stays
KeepsConversation(o, length) == o.len

\* RunOnce has returned and its local variables are gone
Idle(o) ==
    [o EXCEPT !.pc = "idle", !.shared = FALSE, !.local = <<>>, !.llen = 0,
              !.round = 0, !.pending = 0, !.err = "nil",
              !.before = [len |-> 0, conversation |-> <<>>]]

\* agent.New
NewAgent ==
    /\ once.pc \in {"idle", "returned"}
    /\ once' = NewAgentMemory
    /\ UNCHANGED notOnceVars

\* a.conversation = append(a.conversation, msg), as RunInteractive does for
\* the prompt, the assistant message and the tool results
StoreMessage(msg, newcap) ==
    /\ once.pc \in {"idle", "returned"}
    /\ once.len < MaxConversation
    /\ newcap \in (IF once.len < Len(once.array) THEN {0}
                   ELSE GrownCaps(Len(once.array), once.len + 1))
    /\ once' = IF once.len < Len(once.array)
               THEN [Idle(once) EXCEPT !.array[once.len + 1] = msg,
                                       !.len = once.len + 1]
               ELSE [Idle(once) EXCEPT
                        !.array = NewArray(Append(Conversation(once), msg), newcap),
                        !.len = once.len + 1]
    /\ UNCHANGED notOnceVars

\* ClearConversation: a.conversation = a.conversation[:1], which keeps the
\* array and its capacity
ResliceConversation ==
    /\ once.pc \in {"idle", "returned"}
    /\ once.len > 1
    /\ once' = [Idle(once) EXCEPT !.len = 1]
    /\ UNCHANGED notOnceVars

\* RunOnce up to its loop: messages := append(a.conversation, userMsg)
RunOnceEnter(newcap) ==
    /\ once.pc \in {"idle", "returned"}
    /\ LET entered == [once EXCEPT !.shared = TRUE, !.llen = once.len, !.local = <<>>,
                                   !.round = 0, !.pending = 0, !.err = "nil",
                                   !.before = [len |-> once.len,
                                               conversation |-> Conversation(once)]]
       IN  /\ newcap \in LocalCaps(entered)
           /\ LET appended == AppendLocal(entered, "user", newcap) IN
              once' = [appended EXCEPT !.pc = "top",
                                       !.len = KeepsConversation(once, appended.llen)]
    /\ UNCHANGED notOnceVars

\* one round of RunOnce up to its tool calls
RunOnceStream(outcome, newcap) ==
    /\ once.pc = "top"
    /\ once.round < RunOnceMaxRounds
    /\ IF outcome.err
       THEN /\ newcap = 0
            /\ once' = [once EXCEPT !.pc = "returned", !.err = "error"]
       ELSE /\ newcap \in LocalCaps(once)
            /\ LET appended == AppendLocal(once, "assistant", newcap) IN
               once' = IF outcome.calls = 0
                       THEN [appended EXCEPT !.pc = "returned"]
                       ELSE [appended EXCEPT !.pc = "tools", !.pending = outcome.calls]
    /\ UNCHANGED notOnceVars

\* one pass of the loop over toolCalls in RunOnce: the result, or the text of
\* the error, is appended to messages
RunOnceToolCall(newcap) ==
    /\ once.pc = "tools"
    /\ newcap \in LocalCaps(once)
    /\ LET appended == AppendLocal(once, "tool result", newcap) IN
       once' = IF once.pending = 1
               THEN [appended EXCEPT !.pending = 0, !.round = once.round + 1, !.pc = "top"]
               ELSE [appended EXCEPT !.pending = once.pending - 1]
    /\ UNCHANGED notOnceVars

\* the round limit of RunOnce is reached
RunOnceExit ==
    /\ once.pc = "top"
    /\ once.round >= RunOnceMaxRounds
    /\ once' = [once EXCEPT !.pc = "returned"]
    /\ UNCHANGED notOnceVars

InitOnce ==
    /\ call = NoDispatch
    /\ steps = <<>>
    /\ par = NoParallel
    /\ cond = NoConditional
    /\ mu = Unlocked
    /\ sink = NoText
    /\ once = NewAgentMemory
    /\ cli = NoMain
    /\ disk = NewDefaultFileStorage
    /\ ctx = "background"
    /\ lastExec = NoExec
    /\ variant = "none"
    /\ frames = <<>>
    /\ currentToolCall = NilCall
    /\ toolCalls = <<>>
    /\ executed = <<>>
    /\ streamState = "idle"
    /\ mode = "none"
    /\ round = 0
    /\ loopPc = "idle"
    /\ pendingCalls = 0
    /\ messages = <<>>
    /\ roundsStarted = 0
    /\ runErr = "nil"
    /\ roundCalls = <<>>
    /\ lastResult = NoResult
    /\ tools = EmptyMap
    /\ aliases = EmptyMap
    /\ categories = EmptyMap
    /\ tagIndex = EmptyMap
    /\ ret = NoCall
    /\ schema = NoSchema
    /\ params = EmptyMap
    /\ verr = NotValidated
    /\ stdin = <<>>
    /\ closed = FALSE
    /\ answer = "pending"

NextOnce ==
    \/ NewAgent
    \/ \E msg \in {"user", "assistant"}, newcap \in 0..(2 * MaxConversation + 1) :
            StoreMessage(msg, newcap)
    \/ ResliceConversation
    \/ \E newcap \in 0..(2 * MaxConversation + 1) : RunOnceEnter(newcap)
    \/ \E outcome \in {[err |-> TRUE, calls |-> 0], [err |-> FALSE, calls |-> 0],
                       [err |-> FALSE, calls |-> 1]},
          newcap \in 0..(8 * RunOnceMaxRounds) : RunOnceStream(outcome, newcap)
    \/ \E newcap \in 0..(8 * RunOnceMaxRounds) : RunOnceToolCall(newcap)
    \/ RunOnceExit

\* C38: RunOnce leaves the agent's stored conversation unchanged: whatever
\* rounds and tool calls happen, the user, assistant and tool-result messages
\* of a single-shot run are kept only in a run-local list, and after RunOnce
\* returns (normally or with an error) the agent's conversation has the same
\* length and content as before the call.
C38_RunOnceKeepsConversation ==
    once.pc \in {"top", "tools", "returned"} =>
        /\ once.len = once.before.len
        /\ Conversation(once) = once.before.conversation
        /\ Len(Messages(once)) > once.len
        /\ SubSeq(Messages(once), 1, once.len) = once.before.conversation

\* RunOnce has returned after two rounds, having written its messages into
\* the spare cells of the array that a.conversation points into
C38_Witness ==
    /\ once.pc = "returned"
    /\ once.err = "nil"
    /\ once.round = 1
    /\ once.shared
    /\ once.len = 1
    /\ once.llen = 5
    /\ once.array[2] = "user"
    /\ once.before.conversation = <<"system">>

----------------------------------------------------------------------------
(* Agent conversation claims *)

\* the conversation is non-empty and its first message has role system
StartsWithSystem == messages # <<>> /\ Role(messages[1]) = "system"

\* New or ClearConversation has just returned
JustReset == loopPc \in {"idle", "truncated", "recreated"}

\* C17: after any sequence of New, RunInteractive and ClearConversation the
\* agent's conversation is non-empty and its first message has role system;
\* immediately after New or ClearConversation it consists of exactly that one
\* system message, also when the conversation had been emptied before
\* ClearConversation.
C17_ConversationStartsWithSystem ==
    /\ [](loopPc # "emptied" => StartsWithSystem)
    /\ [](JustReset => messages = <<"system">>)
    /\ [][loopPc = "emptied" => (JustReset' /\ messages' = <<"system">>)]_vars

\* a conversation that grew in a run with a tool call was emptied, and
\* ClearConversation recreated the system message
C17_Witness ==
    /\ loopPc = "recreated"
    /\ messages = <<"system">>
    /\ Len(roundCalls) >= 2
    /\ lastResult # NoResult

\* the first sequence is an initial part of the second
IsPrefix(before, after) ==
    Len(before) <= Len(after) /\ SubSeq(after, 1, Len(before)) = before

\* this step is an operation of the agent on an existing agent: not New, and
\* not the assignment to the field that a test makes
AgentStep == loopPc' \notin {"idle", "emptied"}

\* this step is ClearConversation
ClearStep == loopPc' \in {"truncated", "recreated"} /\ loopPc' # loopPc

\* C33 as stated: the agent's conversation is append-only: no operation of
\* the agent removes or alters a message that was appended, its length never
\* decreases, and while a loop runs it strictly increases with every round
\* until the loop terminates.
C33_ConversationAppendOnly ==
    [][AgentStep => IsPrefix(messages, messages')]_vars

\* C33: the agent's conversation is append-only except for
\* ClearConversation, which cuts it back to the system message: RunInteractive
\* and its loop never remove or alter a message that was appended, and while
\* the loop runs every round whose stream succeeds and every executed tool
\* call makes the conversation longer.
C33_AppendOnlyExceptClear ==
    /\ [][(AgentStep /\ ~ClearStep) => IsPrefix(messages, messages')]_vars
    /\ [][ClearStep => messages' = <<"system">>]_vars
    /\ [][(roundsStarted' = roundsStarted + 1 /\ runErr' = "nil") =>
            Len(messages') > Len(messages)]_vars
    /\ [][Len(executed') > Len(executed) => Len(messages') > Len(messages)]_vars
    /\ [][(loopPc = "returned" /\ loopPc' = "top") =>
            messages' = Append(messages, "user")]_vars

\* a second RunInteractive is in its loop on top of the messages of the first
C33_Witness ==
    /\ loopPc = "tools"
    /\ Len(messages) > MaxConversation
    /\ Count(messages, "user") = 2
    /\ roundsStarted = 2

----------------------------------------------------------------------------
(* Provider.executeToolCall; lastExec.tools is p.tools *)

\* a provider holds at most this many tools
MaxProviderTools == 2

\* the names of the tools a provider is built with
ProviderToolNames == {"bash", "read_file"}

\* the names a tool call can carry
CallNames == ProviderToolNames \cup {"nonexistent_tool"}

\* the argument buffers a tool call can carry, as Go strings
ArgumentPool ==
    { <<"{", "}">>,
      <<"{", "\"", "a", "\"", ":", "1", "}">>,
      <<" ", "{", " ", "}", " ">>,
      <<"{", "\"", "a", "\"", ":", "[", "1", ",", "n", "u", "l", "l", "]", "}">>,
      <<"n", "u", "l", "l">>,
      <<"[", "]">>,
      <<"[", "{", "}", "]">>,
      <<"1">>,
      <<"\"", "a", "\"">>,
      <<"t", "r", "u", "e">>,
      <<>>,
      <<"{">>,
      <<"{", "a", "}">>,
      <<"{", "\"", "a", "\"", ":", "1", ",", "}">>,
      <<"{", "}", "}">>,
      <<"n", "u", "l">> }

\* encoding/json: the white space between tokens
IsJsonSpace(c) == c \in {" ", "\t", "\r", "\n"}

RECURSIVE SkipSpace(_, _)
\* the first position at or after i that holds no white space
SkipSpace(s, i) ==
    IF i <= Len(s) /\ IsJsonSpace(s[i]) THEN SkipSpace(s, i + 1) ELSE i

JsonDigits == {"0", "1", "2", "3", "4", "5", "6", "7", "8", "9"}

RECURSIVE ScanString(_, _)
\* i is just after an opening quote: the position after the closing quote,
\* 0 when the string is not closed (the texts of the pool hold no escapes)
ScanString(s, i) ==
    IF i > Len(s) THEN 0
    ELSE IF s[i] = "\"" THEN i + 1
    ELSE ScanString(s, i + 1)

RECURSIVE ScanDigits(_, _)
\* the position after the digits that start at i
ScanDigits(s, i) ==
    IF i <= Len(s) /\ s[i] \in JsonDigits THEN ScanDigits(s, i + 1) ELSE i

\* the text lit stands at position i of s
HasLiteral(s, i, lit) ==
    /\ i + Len(lit) - 1 <= Len(s)
    /\ SubSeq(s, i, i + Len(lit) - 1) = lit

\* no JSON value starts here
NoValue == [ok |-> FALSE, next |-> 0, kind |-> "none"]

RECURSIVE ParseValue(_, _)
RECURSIVE ParseMembers(_, _)
RECURSIVE ParseElements(_, _)

\* encoding/json's scanner on one value that starts at or after i: whether
\* it is well formed, where it ends, and which kind of value it is
ParseValue(s, i) ==
    LET j == SkipSpace(s, i) IN
    IF j > Len(s) THEN NoValue
    ELSE IF s[j] = "{" THEN
        LET k == SkipSpace(s, j + 1) IN
        IF k <= Len(s) /\ s[k] = "}"
        THEN [ok |-> TRUE, next |-> k + 1, kind |-> "object"]
        ELSE LET m == ParseMembers(s, k) IN
             IF m = 0 THEN NoValue
             ELSE [ok |-> TRUE, next |-> m, kind |-> "object"]
    ELSE IF s[j] = "[" THEN
        LET k == SkipSpace(s, j + 1) IN
        IF k <= Len(s) /\ s[k] = "]"
        THEN [ok |-> TRUE, next |-> k + 1, kind |-> "array"]
        ELSE LET m == ParseElements(s, k) IN
             IF m = 0 THEN NoValue
             ELSE [ok |-> TRUE, next |-> m, kind |-> "array"]
    ELSE IF s[j] = "\"" THEN
        LET e == ScanString(s, j + 1) IN
        IF e = 0 THEN NoValue
        ELSE [ok |-> TRUE, next |-> e, kind |-> "string"]
    ELSE IF s[j] \in JsonDigits THEN
        [ok |-> TRUE, next |-> ScanDigits(s, j), kind |-> "number"]
    ELSE IF HasLiteral(s, j, <<"n", "u", "l", "l">>) THEN
        [ok |-> TRUE, next |-> j + 4, kind |-> "null"]
    ELSE IF HasLiteral(s, j, <<"t", "r", "u", "e">>) THEN
        [ok |-> TRUE, next |-> j + 4, kind |-> "bool"]
    ELSE IF HasLiteral(s, j, <<"f", "a", "l", "s", "e">>) THEN
        [ok |-> TRUE, next |-> j + 5, kind |-> "bool"]
    ELSE NoValue

\* the members of an object from position k, the start of a key: the
\* position after the closing brace, 0 when the object is not well formed
ParseMembers(s, k) ==
    IF k > Len(s) \/ s[k] # "\"" THEN 0
    ELSE LET e == ScanString(s, k + 1) IN
         IF e = 0 THEN 0
         ELSE LET c == SkipSpace(s, e) IN
              IF c > Len(s) \/ s[c] # ":" THEN 0
              ELSE LET v == ParseValue(s, c + 1) IN
                   IF ~v.ok THEN 0
                   ELSE LET d == SkipSpace(s, v.next) IN
                        IF d > Len(s) THEN 0
                        ELSE IF s[d] = "}" THEN d + 1
                        ELSE IF s[d] = "," THEN ParseMembers(s, SkipSpace(s, d + 1))
                        ELSE 0

\* the elements of an array from position k: the position after the closing
\* bracket, 0 when the array is not well formed
ParseElements(s, k) ==
    LET v == ParseValue(s, k) IN
    IF ~v.ok THEN 0
    ELSE LET d == SkipSpace(s, v.next) IN
         IF d > Len(s) THEN 0
         ELSE IF s[d] = "]" THEN d + 1
         ELSE IF s[d] = "," THEN ParseElements(s, d + 1)
         ELSE 0

\* a decoder that accepts every buffer
UnmarshalAnything(data) == [err |-> "nil", params |-> "map"]

\* json.Unmarshal(data, &params) with params a map[string]any: a syntax error
\* for a text that is not one JSON value, the map for an object, the nil map
\* left as it is for null, and a type error for any other value
Unmarshal(data) ==
    LET v == ParseValue(data, 1) IN
    IF ~v.ok \/ SkipSpace(data, v.next) # Len(data) + 1
    THEN [err |-> "syntax error", params |-> "none"]
    ELSE IF v.kind = "object" THEN [err |-> "nil", params |-> "map"]
    ELSE IF v.kind = "null" THEN [err |-> "nil", params |-> "nil map"]
    ELSE [err |-> "type error", params |-> "none"]

\* the loop over p.tools: the place of the first tool of that name, 0 for
\* targetTool == nil
TargetTool(ts, name) ==
    IF \E i \in DOMAIN ts : ts[i] = name
    THEN CHOOSE i \in DOMAIN ts :
            ts[i] = name /\ \A j \in DOMAIN ts : ts[j] = name => i <= j
    ELSE 0

\* a provider with these tools, before any call
Provider(ts) ==
    [tools |-> ts, called |-> FALSE, name |-> "", arguments |-> <<>>,
     toolReturns |-> "nil", invoked |-> <<>>, err |-> "nil", result |-> ""]

\* NewProvider(cfg, tools)
NewProvider(ts) ==
    /\ lastExec' = Provider(ts)
    /\ UNCHANGED notExecVars

\* Provider.executeToolCall; toolReturns is the error the tool's Execute
\* returns when it is invoked
executeToolCall(name, arguments, toolReturns) ==
    /\ LET target == TargetTool(lastExec.tools, name)
           decoded == Unmarshal(arguments)
           base == [Provider(lastExec.tools) EXCEPT
                        !.called = TRUE, !.name = name,
                        !.arguments = arguments, !.toolReturns = toolReturns]
       IN lastExec' =
            IF target = 0
            THEN [base EXCEPT !.err = "tool not found"]
            ELSE IF decoded.err # "nil"
            THEN [base EXCEPT !.err = "failed to parse tool arguments"]
            ELSE [base EXCEPT
                    !.invoked = <<[tool |-> target, params |-> decoded.params]>>,
                    !.err = toolReturns,
                    !.result = IF toolReturns = "nil" THEN "result" ELSE ""]
    /\ UNCHANGED notExecVars

\* the tool lists a provider can be built with
ProviderToolLists ==
    UNION {[1..n -> ProviderToolNames] : n \in 0..MaxProviderTools}

InitExec ==
    /\ lastExec = Provider(<<>>)
    /\ call = NoDispatch
    /\ steps = <<>>
    /\ par = NoParallel
    /\ cond = NoConditional
    /\ mu = Unlocked
    /\ sink = NoText
    /\ once = NewAgentMemory
    /\ cli = NoMain
    /\ disk = NewDefaultFileStorage
    /\ ctx = "background"
    /\ variant = "none"
    /\ frames = <<>>
    /\ currentToolCall = NilCall
    /\ toolCalls = <<>>
    /\ executed = <<>>
    /\ streamState = "idle"
    /\ mode = "none"
    /\ round = 0
    /\ loopPc = "idle"
    /\ pendingCalls = 0
    /\ messages = <<>>
    /\ roundsStarted = 0
    /\ runErr = "nil"
    /\ roundCalls = <<>>
    /\ lastResult = NoResult
    /\ tools = EmptyMap
    /\ aliases = EmptyMap
    /\ categories = EmptyMap
    /\ tagIndex = EmptyMap
    /\ ret = NoCall
    /\ schema = NoSchema
    /\ params = EmptyMap
    /\ verr = NotValidated
    /\ stdin = <<>>
    /\ closed = FALSE
    /\ answer = "pending"

NextExec ==
    \/ \E ts \in ProviderToolLists : NewProvider(ts)
    \/ \E name \in CallNames, arguments \in ArgumentPool,
          toolReturns \in {"nil", "execution failed"} :
            executeToolCall(name, arguments, toolReturns)

----------------------------------------------------------------------------
(* executeToolCall claims *)

\* the buffers of the pool that are a JSON object
JsonObjects ==
    { <<"{", "}">>,
      <<"{", "\"", "a", "\"", ":", "1", "}">>,
      <<" ", "{", " ", "}", " ">>,
      <<"{", "\"", "a", "\"", ":", "[", "1", ",", "n", "u", "l", "l", "]", "}">> }

\* the JSON literal null
JsonNull == <<"n", "u", "l", "l">>

\* the name of the call is the name of a tool of the provider
KnownName == \E i \in DOMAIN lastExec.tools : lastExec.tools[i] = lastExec.name

\* what executeToolCall does given that the buffers in decodable are the
\* ones that decode
ExecContract(decodable) ==
    lastExec.called =>
        /\ lastExec.invoked # <<>> =>
                KnownName /\ lastExec.arguments \in decodable
        /\ ~KnownName =>
                lastExec.err = "tool not found" /\ lastExec.invoked = <<>>
        /\ (KnownName /\ lastExec.arguments \notin decodable) =>
                /\ lastExec.err = "failed to parse tool arguments"
                /\ lastExec.invoked = <<>>
        /\ (KnownName /\ lastExec.arguments \in decodable) =>
                /\ Len(lastExec.invoked) = 1
                /\ lastExec.tools[lastExec.invoked[1].tool] = lastExec.name
                /\ lastExec.err = lastExec.toolReturns

\* C18: executeToolCall invokes a tool's Execute only when the call's name
\* matches a tool of the provider and the argument buffer decodes as a JSON
\* object; an unknown name yields a tool-not-found error and undecodable
\* arguments yield a parse error, in both cases without invoking any tool,
\* and the name is resolved before the arguments are decoded; an error
\* returned by the tool itself is passed through.
C18_InvokesOnlyOnJsonObject == ExecContract(JsonObjects)

\* C18, amended: the same, where the buffers that decode are the JSON objects
\* and the JSON literal null, for which the tool is invoked with a nil map.
C18_InvokesOnlyOnObjectOrNull ==
    /\ ExecContract(JsonObjects \cup {JsonNull})
    /\ (lastExec.called /\ lastExec.invoked # <<>>) =>
            (lastExec.invoked[1].params = "nil map"
                <=> lastExec.arguments = JsonNull)

\* the second tool of the provider was invoked on a JSON object, and its
\* error came back
C18_Witness ==
    /\ lastExec.called
    /\ lastExec.tools = <<"bash", "read_file">>
    /\ lastExec.name = "read_file"
    /\ lastExec.arguments = <<"{", "\"", "a", "\"", ":", "1", "}">>
    /\ lastExec.invoked = <<[tool |-> 2, params |-> "map"]>>
    /\ lastExec.err = "execution failed"

----------------------------------------------------------------------------
(* Legacy tools: tools.BashTool.Execute and tools.WriteTool.Execute; params
   is the map handed to Execute, call what Execute did *)

notLegacyVars ==
    <<restVars, lockVars, textVars, pipeVars, execVars, regVars, schema, verr, gateVars, steps, accVars,
      loopVars>>

sudoLs == <<"s", "u", "d", "o", " ", "l", "s">>
SudoLs == <<"S", "u", "d", "o", " ", "l", "s">>
rmRf == <<"r", "m", " ", "-", "r", "f", " ", "a">>

\* BashTool.isDangerous: the list dangerous
dangerous ==
    << <<"r", "m", " ", "-", "r", "f">>,
       <<"s", "u", "d", "o">>,
       <<"c", "u", "r", "l">>,
       <<"w", "g", "e", "t">>,
       <<"d", "d", " ", "i", "f", "=">>,
       <<"m", "k", "f", "s">>,
       <<"f", "d", "i", "s", "k">>,
       <<">", " ", "/", "d", "e", "v", "/">> >>

\* a check that compares the command as it was typed
isDangerousAsTyped(command) ==
    \E i \in DOMAIN dangerous : Contains(command, dangerous[i])

\* BashTool.isDangerous
isDangerous(command) ==
    LET cmdLower == ToLower(command) IN
    \E i \in DOMAIN dangerous : Contains(cmdLower, dangerous[i])

\* v, ok := params[key].(string)
IsStringParam(p, key) == HasKey(p, key) /\ p[key].kind = "string"

\* what Execute did: the permission requests and side effects in order, and
\* the error it returned
Did(path, events, err) ==
    [NoDispatch EXCEPT !.path = path, !.events = events, !.err = err]

\* t.perm.Request(name, ...) and what it answered
EvPerm(name, granted) == <<EvRequest(name, granted)>>

\* the keys and values of the maps handed to the legacy tools
LegacyKeys == {"command", "file_path", "content"}

LegacyValues ==
    {StrVal(ls), StrVal(sudoLs), StrVal(SudoLs), StrVal(rmRf), StrVal(empty),
     IntVal(1)}

\* a new tool call: the decoded arguments start as an empty map
NewParams ==
    /\ params' = EmptyMap
    /\ call' = NoDispatch
    /\ UNCHANGED notLegacyVars

\* one key of the arguments of the call
SetParam(key, value) ==
    /\ call = NoDispatch
    /\ params' = MapPut(params, key, value)
    /\ UNCHANGED <<call, notLegacyVars>>

\* tools.BashTool.Execute; granted is what perm.Request answers when asked,
\* ok whether the command succeeds when run
BashToolExecute(granted, ok) ==
    /\ call' =
        IF ~IsStringParam(params, "command")
        THEN Did("BashTool", <<>>, "command parameter is required and must be a string")
        ELSE IF isDangerous(params["command"].s)
        THEN Did("BashTool", <<>>, "command contains dangerous operations")
        ELSE IF ~granted
        THEN Did("BashTool", EvPerm("bash", FALSE), "permission denied for command")
        ELSE Did("BashTool", EvPerm("bash", TRUE) \o <<EvExecute("bash")>>,
                 IF ok THEN "nil" ELSE "command failed")
    /\ UNCHANGED <<params, notLegacyVars>>

\* tools.WriteTool.Execute; granted is what perm.Request answers when asked,
\* ok whether os.WriteFile succeeds
WriteToolExecute(granted, ok) ==
    /\ call' =
        IF ~IsStringParam(params, "file_path")
        THEN Did("WriteTool", <<>>, "file_path parameter is required and must be a string")
        ELSE IF ~IsStringParam(params, "content")
        THEN Did("WriteTool", <<>>, "content parameter is required and must be a string")
        ELSE IF ~granted
        THEN Did("WriteTool", EvPerm("write_file", FALSE),
                 "permission denied for writing to file")
        ELSE Did("WriteTool",
                 EvPerm("write_file", TRUE) \o <<EvExecute("write_file")>>,
                 IF ok THEN "nil" ELSE "failed to write file")
    /\ UNCHANGED <<params, notLegacyVars>>

InitLegacy ==
    /\ params = EmptyMap
    /\ call = NoDispatch
    /\ steps = <<>>
    /\ par = NoParallel
    /\ cond = NoConditional
    /\ mu = Unlocked
    /\ sink = NoText
    /\ once = NewAgentMemory
    /\ cli = NoMain
    /\ disk = NewDefaultFileStorage
    /\ ctx = "background"
    /\ lastExec = NoExec
    /\ variant = "none"
    /\ frames = <<>>
    /\ currentToolCall = NilCall
    /\ toolCalls = <<>>
    /\ executed = <<>>
    /\ streamState = "idle"
    /\ mode = "none"
    /\ round = 0
    /\ loopPc = "idle"
    /\ pendingCalls = 0
    /\ messages = <<>>
    /\ roundsStarted = 0
    /\ runErr = "nil"
    /\ roundCalls = <<>>
    /\ lastResult = NoResult
    /\ tools = EmptyMap
    /\ aliases = EmptyMap
    /\ categories = EmptyMap
    /\ tagIndex = EmptyMap
    /\ ret = NoCall
    /\ schema = NoSchema
    /\ verr = NotValidated
    /\ stdin = <<>>
    /\ closed = FALSE
    /\ answer = "pending"

NextLegacy ==
    \/ NewParams
    \/ \E key \in LegacyKeys, value \in LegacyValues : SetParam(key, value)
    \/ \E granted \in BOOLEAN, ok \in BOOLEAN : BashToolExecute(granted, ok)
    \/ \E granted \in BOOLEAN, ok \in BOOLEAN : WriteToolExecute(granted, ok)

----------------------------------------------------------------------------
(* Legacy tool claims *)

\* the commands of the pool that hold a dangerous operation
DangerousCommands == {sudoLs, SudoLs, rmRf}

\* the parameters Execute needs are present and are strings
ParamsWellTyped ==
    IF call.path = "BashTool"
    THEN /\ "command" \in DOMAIN params
         /\ params["command"] \in {StrVal(ls), StrVal(sudoLs), StrVal(SudoLs),
                                   StrVal(rmRf), StrVal(empty)}
    ELSE /\ {"file_path", "content"} \subseteq DOMAIN params
         /\ params["file_path"] # IntVal(1)
         /\ params["content"] # IntVal(1)

\* the command holds a dangerous operation (bash only)
CommandDangerous ==
    /\ call.path = "BashTool"
    /\ "command" \in DOMAIN params
    /\ \E c \in DangerousCommands : params["command"] = StrVal(c)

\* the tool's name for the permission manager
LegacyName == IF call.path = "BashTool" THEN "bash" ELSE "write_file"

----------------------------------------------------------------------------
(* Schema-described tools: tools/system, tools/file, tools/task *)

notCoreVars ==
    <<restVars, lockVars, textVars, pipeVars, execVars, regVars, gateVars, steps, accVars,
      loopVars>>

get == <<"g", "e", "t">>
set == <<"s", "e", "t">>
delete == <<"d", "e", "l", "e", "t", "e">>
info == <<"i", "n", "f", "o">>
kill == <<"k", "i", "l", "l">>
add == <<"a", "d", "d">>
update == <<"u", "p", "d", "a", "t", "e">>
overwrite == <<"o", "v", "e", "r", "w", "r", "i", "t", "e">>
append == <<"a", "p", "p", "e", "n", "d">>
create == <<"c", "r", "e", "a", "t", "e">>
pending == <<"p", "e", "n", "d", "i", "n", "g">>
in_progress == <<"i", "n", "_", "p", "r", "o", "g", "r", "e", "s", "s">>
completed == <<"c", "o", "m", "p", "l", "e", "t", "e", "d">>
low == <<"l", "o", "w">>
medium == <<"m", "e", "d", "i", "u", "m">>
high == <<"h", "i", "g", "h">>
mkfsA == <<"M", "k", "f", "s", " ", "a">>

\* a property without enum or length bounds
PlainProp(type) == Prop(type, <<>>, 0, 0)

\* the schema each constructor sets
CoreSchema(tool) ==
    CASE tool = "bash" ->
           [required |-> <<"command">>,
            properties |-> [command |-> PlainProp("string"), cwd |-> PlainProp("string"),
                            env |-> PlainProp("object"), timeout |-> PlainProp("integer"),
                            shell |-> PlainProp("string"),
                            capture_output |-> PlainProp("boolean"),
                            combine_output |-> PlainProp("boolean")]]
      [] tool = "write" ->
           [required |-> <<"path", "content">>,
            properties |-> [path |-> PlainProp("string"), content |-> PlainProp("string"),
                            mode |-> Prop("string", <<overwrite, append, create>>, 0, 0),
                            create_dirs |-> PlainProp("boolean"),
                            backup |-> PlainProp("boolean"),
                            file_mode |-> PlainProp("string")]]
      [] tool = "env" ->
           [required |-> <<"action">>,
            properties |-> [action |-> Prop("string", <<get, set, list, delete>>, 0, 0),
                            name |-> PlainProp("string"), value |-> PlainProp("string"),
                            pattern |-> PlainProp("string")]]
      [] tool = "process" ->
           [required |-> <<"action">>,
            properties |-> [action |-> Prop("string", <<list, info, kill>>, 0, 0),
                            pid |-> PlainProp("integer"), signal |-> PlainProp("string"),
                            pattern |-> PlainProp("string")]]
      [] tool = "todo" ->
           [required |-> <<"action">>,
            properties |-> [action |-> Prop("string", <<list, add, update>>, 0, 0),
                            id |-> PlainProp("string"), content |-> PlainProp("string"),
                            status |-> Prop("string", <<pending, in_progress, completed>>, 0, 0),
                            priority |-> Prop("string", <<low, medium, high>>, 0, 0)]]

CoreTools == {"bash", "write", "env", "process", "todo"}

\* an Execute that goes on whatever the parameters are
SchemaErrorsIgnored(p, tool) == {Nil}

\* params.Validate(t.Schema()), the first statement of every Execute
SchemaErrors(p, tool) == ValidateErrors(p, CoreSchema(tool))

\* BashTool.checkCommandSafety
checkCommandSafety(command) ==
    LET lowerCommand == ToLower(command)
        dangerousCommands ==
            << <<"r", "m", " ", "-", "r", "f", " ", "/">>,
               <<"r", "m", " ", "-", "r", "f", " ", "/", "*">>,
               <<"d", "d", " ", "i", "f", "=", "/", "d", "e", "v", "/", "z", "e", "r", "o">>,
               <<"m", "k", "f", "s">>,
               <<"f", "o", "r", "m", "a", "t">>,
               <<":", "(", ")", "{", " ", ":", "|", ":", "&", " ", "}", ";", ":">> >>
        dangerousPatterns ==
            << <<">", " ", "/", "d", "e", "v", "/", "s", "d", "a">>,
               <<">", " ", "/", "d", "e", "v", "/", "n", "u", "l", "l", " ", "2", ">",
                 "&", "1", " ", "&">>,
               <<"c", "h", "m", "o", "d", " ", "-", "R", " ", "7", "7", "7", " ", "/">>,
               <<"c", "h", "o", "w", "n", " ", "-", "R">> >>
    IN \/ \E i \in DOMAIN dangerousCommands :
            Contains(lowerCommand, ToLower(dangerousCommands[i]))
       \/ \E i \in DOMAIN dangerousPatterns :
            Contains(lowerCommand, ToLower(dangerousPatterns[i]))

\* what an Execute did: the subprocess, file write, environment change or task
\* mutation it made
Effect(tool) == <<EvExecute(tool)>>

\* how cmd.Run can end: the command exits with status zero, or with another
\* status, or the timeout context expires and the subprocess is killed, which
\* Wait reports as an *exec.ExitError ("killed") or, when the killed process
\* still reports success, as the error of the context ("deadline")
CmdRuns == {"exit0", "exitN", "killed", "deadline"}

\* the timeout of the call expired before the command finished
TimedOut(how) == how \in {"killed", "deadline"}

\* the message and exit code BashTool.Execute derives from the error of
\* cmd.Run; expired is whether the context of the caller, not the timeout
\* context, has passed a deadline of its own
BashResult(how, expired) ==
    CASE how = "exit0" ->
            [ran |-> how, msg |-> "Command executed successfully", exit_code |-> 0]
      [] how = "exitN" ->
            [ran |-> how, msg |-> "Command failed with exit code", exit_code |-> 1]
      [] how = "killed" ->
            [ran |-> how, msg |-> "Command failed with exit code", exit_code |-> -1]
      [] how = "deadline" /\ expired ->
            [ran |-> how, msg |-> "Command timed out", exit_code |-> -1]
      [] how = "deadline" /\ ~expired ->
            [ran |-> how, msg |-> "Command failed", exit_code |-> -1]

\* core.IsRetryable: the Retryable flag of a ToolError, which only ErrTimeout
\* sets; false for nil and for every other error
IsRetryable(err) == err = "TIMEOUT"

\* system.BashTool.Execute after validation; how is the way the command ends.
\* Once the command was started Execute returns the result and a nil error
BashRun(p, how, expired) ==
    IF ~Has(p, "command")
    THEN Did("bash", <<>>, "INVALID_PARAMS")
    ELSE IF checkCommandSafety(GetString(p, "command"))
    THEN Did("bash", <<>>, "EXECUTION_FAILED")
    ELSE [Did("bash", Effect("bash"), "nil") EXCEPT
            !.results = <<BashResult(how, expired)>>]

\* file.WriteTool.Execute after validation; stat is what os.Stat finds at the
\* path, ok whether the write succeeds
WriteRun(p, stat, ok) ==
    IF ~Has(p, "path") \/ ~Has(p, "content")
    THEN Did("write", <<>>, "INVALID_PARAMS")
    ELSE IF stat = "dir"
    THEN Did("write", <<>>, "EXECUTION_FAILED")
    ELSE IF Has(p, "mode") /\ GetString(p, "mode") = create /\ stat = "file"
    THEN Did("write", <<>>, "EXECUTION_FAILED")
    ELSE Did("write", Effect("write"), IF ok THEN "nil" ELSE "EXECUTION_FAILED")

\* system.EnvTool.Execute after validation; ok is whether Setenv or Unsetenv
\* succeeds
EnvRun(p, ok) ==
    IF ~Has(p, "action")
    THEN Did("env", <<>>, "INVALID_PARAMS")
    ELSE LET action == GetString(p, "action") IN
         IF action = get
         THEN Did("env", <<>>, IF Has(p, "name") THEN "nil" ELSE "INVALID_PARAMS")
         ELSE IF action = set
         THEN IF ~Has(p, "name") \/ ~Has(p, "value")
              THEN Did("env", <<>>, "INVALID_PARAMS")
              ELSE Did("env", Effect("env"), IF ok THEN "nil" ELSE "EXECUTION_FAILED")
         ELSE IF action = list
         THEN Did("env", <<>>, "nil")
         ELSE IF action = delete
         THEN IF ~Has(p, "name")
              THEN Did("env", <<>>, "INVALID_PARAMS")
              ELSE Did("env", Effect("env"), IF ok THEN "nil" ELSE "EXECUTION_FAILED")
         ELSE Did("env", <<>>, "INVALID_PARAMS")

\* GetInt on a present key: whether it yields an integer
IsInt(v) ==
    \/ v.kind = "int"
    \/ /\ v.kind = "string"
       /\ LET from == IF v.s # <<>> /\ v.s[1] \in {"+", "-"} THEN 2 ELSE 1 IN
          from <= Len(v.s) /\ ScanDigits(v.s, from) = Len(v.s) + 1

\* system.ProcessTool.Execute after validation; ok is whether the signal is
\* delivered
ProcessRun(p, ok) ==
    IF ~Has(p, "action")
    THEN Did("process", <<>>, "INVALID_PARAMS")
    ELSE LET action == GetString(p, "action") IN
         IF action = list
         THEN Did("process", <<>>, "nil")
         ELSE IF action = info
         THEN Did("process", <<>>,
                  IF Has(p, "pid") /\ IsInt(p["pid"]) THEN "nil" ELSE "INVALID_PARAMS")
         ELSE IF action = kill
         THEN IF ~Has(p, "pid") \/ ~IsInt(p["pid"])
              THEN Did("process", <<>>, "INVALID_PARAMS")
              ELSE Did("process", Effect("process"),
                       IF ok THEN "nil" ELSE "EXECUTION_FAILED")
         ELSE Did("process", <<>>, "INVALID_PARAMS")

\* task.TaskTool.Execute after validation; found is whether manager.Get finds
\* the task to update, ok whether the change is saved
TaskRun(p, found, ok) ==
    IF ~Has(p, "action")
    THEN Did("todo", <<>>, "INVALID_PARAMS")
    ELSE LET action == GetString(p, "action") IN
         IF action = list
         THEN Did("todo", <<>>, "nil")
         ELSE IF action = add
         THEN IF ~Has(p, "content")
              THEN Did("todo", <<>>, "INVALID_PARAMS")
              ELSE Did("todo", Effect("todo"), IF ok THEN "nil" ELSE "EXECUTION_FAILED")
         ELSE IF action = update
         THEN IF ~Has(p, "id")
              THEN Did("todo", <<>>, "INVALID_PARAMS")
              ELSE IF ~found
              THEN Did("todo", <<>>, "EXECUTION_FAILED")
              ELSE Did("todo", Effect("todo"), IF ok THEN "nil" ELSE "EXECUTION_FAILED")
         ELSE Did("todo", <<>>, "INVALID_PARAMS")

\* the start of every Execute: the error of Validate is returned as
\* InvalidParams before anything else is done
ValidateThen(tool, e, after) ==
    IF e # Nil THEN Did(tool, <<>>, "INVALID_PARAMS") ELSE after

BashExecute(how, expired) ==
    /\ call = NoDispatch
    /\ schema' = CoreSchema("bash")
    /\ \E e \in SchemaErrors(params, "bash") :
          /\ verr' = e
          /\ call' = ValidateThen("bash", e, BashRun(params, how, expired))
    /\ UNCHANGED <<params, notCoreVars>>

WriteExecute(stat, ok) ==
    /\ call = NoDispatch
    /\ schema' = CoreSchema("write")
    /\ \E e \in SchemaErrors(params, "write") :
          /\ verr' = e
          /\ call' = ValidateThen("write", e, WriteRun(params, stat, ok))
    /\ UNCHANGED <<params, notCoreVars>>

EnvExecute(ok) ==
    /\ call = NoDispatch
    /\ schema' = CoreSchema("env")
    /\ \E e \in SchemaErrors(params, "env") :
          /\ verr' = e
          /\ call' = ValidateThen("env", e, EnvRun(params, ok))
    /\ UNCHANGED <<params, notCoreVars>>

ProcessExecute(ok) ==
    /\ call = NoDispatch
    /\ schema' = CoreSchema("process")
    /\ \E e \in SchemaErrors(params, "process") :
          /\ verr' = e
          /\ call' = ValidateThen("process", e, ProcessRun(params, ok))
    /\ UNCHANGED <<params, notCoreVars>>

TaskExecute(found, ok) ==
    /\ call = NoDispatch
    /\ schema' = CoreSchema("todo")
    /\ \E e \in SchemaErrors(params, "todo") :
          /\ verr' = e
          /\ call' = ValidateThen("todo", e, TaskRun(params, found, ok))
    /\ UNCHANGED <<params, notCoreVars>>

\* tool.Execute of the bash, write or todo tool on the parameters of the
\* call, e being what its Validate returns
ToolRun(tool, e, stat, found, ok) ==
    ValidateThen(tool, e,
        CASE tool = "bash" -> BashRun(params, IF ok THEN "exit0" ELSE "exitN", FALSE)
          [] tool = "write" -> WriteRun(params, stat, ok)
          [] tool = "todo" -> TaskRun(params, found, ok))

\* the needsPerm flag CreateToolSet gives the adapter of a tool
NeedsPerm(tool) == \E ad \in CreateToolSet : Info(ad.tool).name = tool /\ ad.needsPerm

\* the tools CreateLegacyToolSet wraps in a PermissionWrappedTool
WrappedTools == {Info(ad.tool).name : ad \in {x \in CreateLegacyToolSet : x.tool.kind = "wrapped"}}

\* CoreToolAdapter.Execute on the parameters of the call: the permission
\* request of an adapter that needs one, then tool.Execute
AdapterExecute(tool, granted, stat, found, ok) ==
    /\ call = NoDispatch
    /\ schema' = CoreSchema(tool)
    /\ IF NeedsPerm(tool) /\ ~granted
       THEN /\ verr' = NotValidated
            /\ call' = Did("CoreToolAdapter", EvPerm(tool, FALSE), ErrPermissionDenied)
       ELSE \E e \in SchemaErrors(params, tool) :
              LET r == ToolRun(tool, e, stat, found, ok) IN
              /\ verr' = e
              /\ call' = Did("CoreToolAdapter",
                             (IF NeedsPerm(tool) THEN EvPerm(tool, TRUE) ELSE <<>>)
                                \o r.events,
                             r.err)
    /\ UNCHANGED <<params, notCoreVars>>

\* LegacyToolAdapter.Execute around a PermissionWrappedTool: the permission
\* request, then tool.Execute
WrappedExecute(tool, granted, stat, found, ok) ==
    /\ call = NoDispatch
    /\ schema' = CoreSchema(tool)
    /\ IF ~granted
       THEN /\ verr' = NotValidated
            /\ call' = Did("PermissionWrappedTool", EvPerm(tool, FALSE),
                           ErrPermissionDenied)
       ELSE \E e \in SchemaErrors(params, tool) :
              LET r == ToolRun(tool, e, stat, found, ok) IN
              /\ verr' = e
              /\ call' = Did("PermissionWrappedTool",
                             EvPerm(tool, TRUE) \o r.events, r.err)
    /\ UNCHANGED <<params, notCoreVars>>

\* the arguments a call can carry: per key, the values tried
CoreValues(key) ==
    CASE key = "command" -> {StrVal(ls), StrVal(mkfsA)}
      [] key = "action" -> {StrVal(list), StrVal(set), StrVal(kill), StrVal(add),
                            StrVal(update), StrVal(ls)}
      [] key = "mode" -> {StrVal(create), StrVal(ls)}
      [] key = "pid" -> {IntVal(1)}
      [] OTHER -> {StrVal(abc)}

CoreKeys == {"command", "action", "path", "content", "mode", "name", "value",
             "pid", "id"}

\* a new call: the decoded arguments start as an empty map
CoreNewParams ==
    /\ params' = EmptyMap
    /\ call' = NoDispatch
    /\ verr' = NotValidated
    /\ schema' = NoSchema
    /\ UNCHANGED notCoreVars

\* one key of the arguments of the call
CoreSetParam(key, value) ==
    /\ call = NoDispatch
    /\ params' = MapPut(params, key, value)
    /\ UNCHANGED <<schema, verr, call, notCoreVars>>

InitCore ==
    /\ params = EmptyMap
    /\ call = NoDispatch
    /\ schema = NoSchema
    /\ verr = NotValidated
    /\ steps = <<>>
    /\ par = NoParallel
    /\ cond = NoConditional
    /\ mu = Unlocked
    /\ sink = NoText
    /\ once = NewAgentMemory
    /\ cli = NoMain
    /\ disk = NewDefaultFileStorage
    /\ ctx = "background"
    /\ lastExec = NoExec
    /\ variant = "none"
    /\ frames = <<>>
    /\ currentToolCall = NilCall
    /\ toolCalls = <<>>
    /\ executed = <<>>
    /\ streamState = "idle"
    /\ mode = "none"
    /\ round = 0
    /\ loopPc = "idle"
    /\ pendingCalls = 0
    /\ messages = <<>>
    /\ roundsStarted = 0
    /\ runErr = "nil"
    /\ roundCalls = <<>>
    /\ lastResult = NoResult
    /\ tools = EmptyMap
    /\ aliases = EmptyMap
    /\ categories = EmptyMap
    /\ tagIndex = EmptyMap
    /\ ret = NoCall
    /\ stdin = <<>>
    /\ closed = FALSE
    /\ answer = "pending"

NextCore ==
    \/ CoreNewParams
    \/ \E key \in CoreKeys : \E value \in CoreValues(key) : CoreSetParam(key, value)
    \/ \E how \in CmdRuns, expired \in BOOLEAN : BashExecute(how, expired)
    \/ \E stat \in {"absent", "file", "dir"}, ok \in BOOLEAN : WriteExecute(stat, ok)
    \/ \E ok \in BOOLEAN : EnvExecute(ok)
    \/ \E ok \in BOOLEAN : ProcessExecute(ok)
    \/ \E found \in BOOLEAN, ok \in BOOLEAN : TaskExecute(found, ok)
    \/ \E tool \in {"bash", "write", "todo"}, granted \in BOOLEAN,
          stat \in {"absent", "file"}, found \in BOOLEAN, ok \in BOOLEAN :
            AdapterExecute(tool, granted, stat, found, ok)
    \/ \E tool \in WrappedTools, granted \in BOOLEAN,
          stat \in {"absent", "file"}, found \in BOOLEAN, ok \in BOOLEAN :
            WrappedExecute(tool, granted, stat, found, ok)

----------------------------------------------------------------------------
(* Schema-described tool claims *)

\* the parameters of the call fail Validate against the schema of the tool
FailsValidate(tool) == ValidateErrors(params, CoreSchema(tool)) # {Nil}

\* C25: for the bash, write, env, process and todo tools, Execute with
\* parameters that fail Validate against the tool's schema returns an
\* InvalidParams error and has no side effect: no subprocess is started, no
\* file written, no environment variable changed and no task mutated.
C25_NoSideEffectOnInvalidParams ==
    \A tool \in CoreTools :
        (call.path = tool /\ FailsValidate(tool)) =>
            /\ call.err = "INVALID_PARAMS"
            /\ call.events = <<>>
            /\ verr \in ValidateErrors(params, CoreSchema(tool))

\* the write tool was called with both required keys and a mode outside its
\* enum, and refused without writing; the same path and content are written
\* when the mode is valid
C25_Witness ==
    /\ call.path = "write"
    /\ {"path", "content", "mode"} \subseteq DOMAIN params
    /\ params["mode"] = StrVal(ls)
    /\ call.err = "INVALID_PARAMS"
    /\ call.events = <<>>
    /\ WriteRun(MapPut(params, "mode", StrVal(create)), "absent", TRUE).events
          = Effect("write")

\* the call went through an adapter or a permission wrapper
Dispatched == call.path \in {"CoreToolAdapter", "PermissionWrappedTool"}

\* C26: for a dispatched tool call the parameters are validated against the
\* schema before the permission gate is asked, and the gate is asked before
\* the tool acts: the permission gate is never consulted for a call whose
\* parameters fail schema validation.
C26_NoPermissionRequestOnInvalidParams ==
    Dispatched =>
        /\ \A i \in DOMAIN call.events :
              call.events[i].ev = "request" => ~FailsValidate(call.events[i].tool)
        /\ \A i \in DOMAIN call.events :
              call.events[i].ev = "execute" =>
                  \/ ~NeedsPerm(call.events[i].tool)
                  \/ /\ i > 1
                     /\ call.events[i - 1] = EvRequest(call.events[i].tool, TRUE)

\* the bash tool ran a command whose timeout expired before it finished
BashTimedOut ==
    /\ call.path = "bash"
    /\ call.results # <<>>
    /\ TimedOut(call.results[1].ran)

\* C35: when the bash tool's timeout expires before the command finishes,
\* the outcome of the call is a Timeout error, distinct from every other
\* outcome and retryable (IsRetryable is true for it and for no other error
\* kind), not a generic failure and not a success.
C35_TimeoutIsRetryableTimeout ==
    /\ \A err \in {"nil", "INVALID_PARAMS", "PERMISSION_DENIED", "TOOL_NOT_FOUND",
                   "EXECUTION_FAILED", "CANCELLED", "NOT_IMPLEMENTED",
                   "INTERNAL_ERROR"} : ~IsRetryable(err)
    /\ BashTimedOut => call.err = "TIMEOUT" /\ IsRetryable(call.err)

----------------------------------------------------------------------------
(* Specifications, one per component *)

SpecRegistry == InitRegistry /\ [][NextRegistry]_vars

SpecConcurrent == InitConcurrent /\ [][NextConcurrent]_vars

SpecValidate == InitValidate /\ [][NextValidate]_vars

SpecGate == InitGate /\ [][NextGate]_vars

SpecDispatch == InitDispatch /\ [][NextDispatch]_vars

SpecParallel == InitParallel /\ [][NextParallel]_vars

SpecConditional == InitConditional /\ [][NextConditional]_vars

SpecAccumulator == InitAccumulator /\ [][NextAccumulator]_vars

SpecLegacy == InitLegacy /\ [][NextLegacy]_vars

SpecExec == InitExec /\ [][NextExec]_vars

SpecAgent == InitAgent /\ [][NextAgent]_vars

SpecOnce == InitOnce /\ [][NextOnce]_vars

SpecMain == InitMain /\ [][NextMain]_vars

SpecStore == InitStore /\ [][NextStore]_vars

SpecSlots == InitSlots /\ [][NextSlots]_vars

SpecCancel == InitCancel /\ [][NextCancel]_vars

SpecCore == InitCore /\ [][NextCore]_vars

\* the loop is one thread of control: a step that can be taken is taken,
\* provided the stream and the tools return
SpecLoop == InitLoop /\ [][NextLoop]_vars /\ WF_vars(NextLoop)

====
